---------------------------- MODULE Spec2Model ----------------------------
(***************************************************************************)
(* A model of the postbag wire-format engine: the varint codec, the        *)
(* skippable block stack of the encoder and of the decoder, and the        *)
(* encoder / decoder engines built on them.                                *)
(*                                                                         *)
(* Byte strings are kept run-length encoded (a sequence of <<byte, count>> *)
(* runs, adjacent runs holding different bytes, every count positive), so  *)
(* that buffers longer than the 0xFFFF chunk limit stay small values.      *)
(***************************************************************************)
EXTENDS Integers, Sequences, FiniteSets, Bags, TLC

\* ------------------------------------------------------------------------
\* Bounds of the model
\* ------------------------------------------------------------------------

\* Number of encoder operations (start / write / end) of one skip session.
MaxOps == 5

\* Deepest nesting of skip blocks explored in a skip session.
MaxDepth == 2

\* Number of field names a writer's struct draws from; a reader's struct
\* draws from one more.
MaxFields == 3

\* Sequences and maps have 0..MaxSmall elements, or a number of elements
\* within Span of SPECIAL_LEN.
MaxSmall == 2

Span == 1

\* ------------------------------------------------------------------------
\* Program constants
\* ------------------------------------------------------------------------

MAX_LEN == 65535

SPECIAL_LEN == 125

UNKNOWN_LEN == 0

ID_LEN == 64

ID_COUNT == 60

ID_LEN_NAME == ID_LEN + 1

\* the bytes of false and true (FALSE and TRUE in lib.rs)
FALSE_BYTE == 0

TRUE_BYTE == 1

\* the option tags
NONE == 0

SOME == 1

\* ------------------------------------------------------------------------
\* Byte strings (Vec<u8> / &[u8]), run-length encoded
\* ------------------------------------------------------------------------

Min(a, b) == IF a <= b THEN a ELSE b

\* Vec::new()
BEmpty == <<>>

\* n copies of byte b
BRep(b, n) == IF n = 0 THEN <<>> ELSE << <<b, n>> >>

\* Vec::len: the sum of the runs' counts (the cardinality of the bag that
\* holds run i that many times)
BLen(s) == BagCardinality([i \in 1..Len(s) |-> s[i][2]])

\* Vec::extend_from_slice: s followed by t
BCat(s, t) ==
  IF s = <<>> THEN t
  ELSE IF t = <<>> THEN s
  ELSE IF s[Len(s)][1] = t[1][1]
       THEN SubSeq(s, 1, Len(s) - 1)
              \o << <<t[1][1], s[Len(s)][2] + t[1][2]>> >> \o Tail(t)
       ELSE s \o t

\* the number of whole runs of s within its first n bytes
RunsWithin(s, n) ==
  CHOOSE k \in 0..Len(s) :
    /\ BLen(SubSeq(s, 1, k)) <= n
    /\ (k = Len(s) \/ BLen(SubSeq(s, 1, k + 1)) > n)

\* the first n bytes of s, k being RunsWithin(s, n)
TakeRuns(s, n, k) ==
  IF k = Len(s) \/ BLen(SubSeq(s, 1, k)) = n THEN SubSeq(s, 1, k)
  ELSE Append(SubSeq(s, 1, k), <<s[k + 1][1], n - BLen(SubSeq(s, 1, k))>>)

\* s without its first n bytes, k being RunsWithin(s, n)
DropRuns(s, n, k) ==
  IF k = Len(s) \/ BLen(SubSeq(s, 1, k)) = n THEN SubSeq(s, k + 1, Len(s))
  ELSE << <<s[k + 1][1], BLen(SubSeq(s, 1, k + 1)) - n>> >> \o SubSeq(s, k + 2, Len(s))

\* the first n bytes of s (all of s if it is shorter)
BTake(s, n) == TakeRuns(s, n, RunsWithin(s, n))

\* Vec::split_off(n): s without its first n bytes
BDrop(s, n) == DropRuns(s, n, RunsWithin(s, n))

\* the first byte of a non-empty byte string
BHead(s) == s[1][1]

\* the indices of the plain sequence q at which a run starts
RunStarts(q) ==
  LET IsStart(i) == i = 1 \/ q[i] # q[i - 1]
  IN  SelectSeq([i \in 1..Len(q) |-> i], IsStart)

\* the runs of q that start at the indices starts
RunsAt(q, starts) ==
  [j \in 1..Len(starts) |->
     <<q[starts[j]],
       (IF j < Len(starts) THEN starts[j + 1] ELSE Len(q) + 1) - starts[j]>>]

\* the byte string holding the bytes of the plain sequence q
BOf(q) == RunsAt(q, RunStarts(q))

\* ------------------------------------------------------------------------
\* Unsigned integers of a fixed width, as little-endian bit sequences
\* (u32, u64 and u128 values do not fit a model-checker integer)
\* ------------------------------------------------------------------------

Pow2(k) == 2 ^ k

\* the w-bit value of the natural number n (n < 2^31)
IntToBits(n, width) == [i \in 1..width |-> IF i <= 31 THEN (n \div Pow2(i - 1)) % 2 ELSE 0]

\* the natural number of a bit sequence whose value is below 2^30: the sum
\* of the powers of two of its set bits
BitsToInt(bits) ==
  BagCardinality([i \in {j \in 1..Min(Len(bits), 30) : bits[j] = 1} |-> Pow2(i - 1)])

\* whether the value fits a model-checker integer (bits 31.. are clear)
FitsInt(bits) == \A i \in 1..Len(bits) : i >= 31 => bits[i] = 0

\* value == 0
BitsZero(bits) == \A i \in 1..Len(bits) : bits[i] = 0

\* value >>= 7 at width Len(bits)
Shr7(bits) == [i \in 1..Len(bits) |-> IF i + 7 <= Len(bits) THEN bits[i + 7] ELSE 0]

\* value.to_le_bytes()[0] & 0x7F: the low seven bits as a number
Low7(bits) ==
  bits[1] + 2 * bits[2] + 4 * bits[3] + 8 * bits[4]
    + 16 * bits[5] + 32 * bits[6] + 64 * bits[7]

\* varint_max::<T>(): the most bytes a varint of the width takes
varint_max(width) == (width + 6) \div 7

\* max_of_last_byte::<T>(): the largest last byte of a full-length varint
max_of_last_byte(width) == Pow2(width % 7) - 1

RECURSIVE varint_bits(_, _)
\* varint_u16 / varint_u32 / varint_u64 / varint_u128: the bytes of the
\* value, seven bits a byte, low group first, 0x80 set on all but the last;
\* i counts the bytes already produced
varint_bits(bits, i) ==
  IF BitsZero(Shr7(bits)) \/ i + 1 >= varint_max(Len(bits))
  THEN <<Low7(bits)>>
  ELSE <<Low7(bits) + 128>> \o varint_bits(Shr7(bits), i + 1)

\* the varint of the given width of the natural number n, as a byte string
varint_int(n, width) == BOf(varint_bits(IntToBits(n, width), 0))


\* ------------------------------------------------------------------------
\* Encoder skip stack (ser/skippable.rs)
\*
\* The stack Base(W) / SkipBlock{inner, buf} / Dummy is kept flat: base is
\* the bytes the underlying writer has received, blocks[1] is the outermost
\* open block and blocks[Len(blocks)] the innermost. Level 0 is the base.
\* Each block also keeps two history fields that the code does not have:
\* recv, every byte written into the block so far, and mark, the number of
\* bytes the enclosing level had received when the block was opened.
\*
\* The writer is any std::io::Write. bounded says that it is a fixed buffer
\* (a &mut [u8]) with room bytes left, whose write_all copies what fits and
\* fails once it is full; err says that the operation returned that error.
\* ------------------------------------------------------------------------

\* SkipWrite::new over a writer that takes every byte (a Vec<u8>)
SkipWriteNew ==
  [dummy |-> FALSE, panic |-> FALSE, base |-> BEmpty, blocks |-> <<>>,
   bounded |-> FALSE, room |-> 0, err |-> FALSE]

\* SkipWrite::new over a fixed buffer of room bytes
SkipWriteOver(room) == [SkipWriteNew EXCEPT !.bounded = TRUE, !.room = room]

\* write_all of the underlying writer
BaseWriteAll(ws, data) ==
  IF ws.bounded /\ BLen(data) > ws.room
  THEN [ws EXCEPT !.base = BCat(@, BTake(data, ws.room)), !.room = 0, !.err = TRUE]
  ELSE [ws EXCEPT !.base = BCat(@, data),
                  !.room = IF ws.bounded THEN @ - BLen(data) ELSE @]

\* every byte level d has received (the writer's content for level 0)
WRecv(ws, d) == IF d = 0 THEN ws.base ELSE ws.blocks[d].recv

WDepth(ws) == Len(ws.blocks)

RECURSIVE SkipStackWrite(_, _, _)
RECURSIVE flush_buf_if_required(_, _)

\* SkipBlock::flush_buf: the buffer's length as a u16 varint, then the buffer
flush_buf(ws, d) ==
  IF BLen(ws.blocks[d].buf) > MAX_LEN
  THEN [ws EXCEPT !.panic = TRUE]
  ELSE SkipStackWrite(
         SkipStackWrite(ws, d - 1, varint_int(BLen(ws.blocks[d].buf), 16)),
         d - 1, ws.blocks[d].buf)

\* the loop of flush_buf_if_required after flush_buf()?: an error leaves the
\* loop with the buffer split off, otherwise buf = rem and the next turn
flush_flushed(f, d, rem) ==
  IF f.panic \/ f.err THEN f
  ELSE flush_buf_if_required([f EXCEPT !.blocks[d].buf = rem], d)

\* the body of flush_buf_if_required's loop: rem = buf.split_off(MAX_LEN),
\* flush_buf, buf = rem
flush_full(ws, d, rem) ==
  flush_flushed(flush_buf([ws EXCEPT !.blocks[d].buf = BTake(@, MAX_LEN)], d), d, rem)

\* a flush_buf_if_required that never flushes before the block is closed
flush_never(ws, d) == ws

\* SkipBlock::flush_buf_if_required
flush_buf_if_required(ws, d) ==
  IF ~ws.panic /\ ~ws.err /\ BLen(ws.blocks[d].buf) >= MAX_LEN
  THEN flush_full(ws, d, BDrop(ws.blocks[d].buf, MAX_LEN))
  ELSE ws

\* SkipBlock::write
SkipBlockWrite(ws, d, data) ==
  flush_buf_if_required(
    [ws EXCEPT !.blocks[d].buf = BCat(@, data), !.blocks[d].recv = BCat(@, data)], d)

\* SkipStack::write at level d
SkipStackWrite(ws, d, data) ==
  IF ws.panic \/ ws.err THEN ws
  ELSE IF ws.dummy THEN [ws EXCEPT !.panic = TRUE]
  ELSE IF d = 0 THEN BaseWriteAll(ws, data)
  ELSE SkipBlockWrite(ws, d, data)

\* SkipWrite::write
SkipWrite_write(ws, data) == SkipStackWrite(ws, WDepth(ws), data)

\* SkipWrite::start_skippable
SkipWrite_start_skippable(ws) ==
  IF ws.panic THEN ws
  ELSE [ws EXCEPT !.blocks = Append(@, [buf |-> BEmpty, recv |-> BEmpty,
                                       mark |-> BLen(WRecv(ws, WDepth(ws)))])]

\* SkipBlock::finish's return: the inner stack
PopBlock(ws) == [ws EXCEPT !.blocks = SubSeq(@, 1, Len(@) - 1)]

\* SkipBlock::finish's return and end_skippable's assignment: the inner stack
\* on success; on an error the stack keeps the placeholder
finish_flushed(f) ==
  IF f.panic THEN f
  ELSE IF f.err THEN [f EXCEPT !.dummy = TRUE, !.blocks = <<>>]
  ELSE PopBlock(f)

\* SkipBlock::finish
SkipBlockFinish(ws) ==
  IF BLen(ws.blocks[WDepth(ws)].buf) = MAX_LEN
  THEN [ws EXCEPT !.panic = TRUE]
  ELSE finish_flushed(flush_buf(ws, WDepth(ws)))

\* SkipWrite::end_skippable
SkipWrite_end_skippable(ws) ==
  IF ws.panic THEN ws
  ELSE IF ws.dummy \/ WDepth(ws) = 0 THEN [ws EXCEPT !.panic = TRUE]
  ELSE SkipBlockFinish(ws)

\* SkipWrite::into_inner: the writer's bytes; a panic with a block open
SkipWrite_into_inner(ws) ==
  IF ws.panic THEN ws
  ELSE IF ws.dummy \/ WDepth(ws) > 0 THEN [ws EXCEPT !.panic = TRUE]
  ELSE ws

\* ------------------------------------------------------------------------
\* Decoder skip stack (de/skippable.rs)
\*
\* Flat like the encoder's: base is the input the reader has not consumed,
\* blocks[d] is [remaining, has_next_block] of the block at level d. Every
\* operation returns [err, st, val]: the error ("Ok" when none), the stack
\* afterwards (also after an error: the caller keeps the stack), the value.
\* Two history fields that the code does not have: seen, in each block, the
\* chunk headers the block has read, each with the remaining count it was
\* read at; done, the seen of the block closed last.
\* ------------------------------------------------------------------------

\* SkipStack::new
SkipStackNew(input) == [dummy |-> FALSE, base |-> input, blocks |-> <<>>, done |-> <<>>]

RDepth(rs) == Len(rs.blocks)

Res(e, rs, v) == [err |-> e, st |-> rs, val |-> v]

RECURSIVE try_take_n(_, _, _)
RECURSIVE try_take_varint_u16(_, _, _, _)
RECURSIVE take_loop(_, _, _, _)
RECURSIVE update_remaining(_, _)
RECURSIVE SkipBlock_try_take_n(_, _, _)

\* an update_remaining that takes every chunk for the last one
set_remaining_last(h, d) ==
  IF h.err # "Ok" THEN h
  ELSE Res("Ok",
           [h.st EXCEPT !.blocks[d].remaining = h.val,
                        !.blocks[d].has_next_block = FALSE],
           0)

\* update_remaining, once the header h has been read: remaining = the header,
\* has_next_block = (remaining == MAX_LEN)
set_remaining(h, d) ==
  IF h.err # "Ok" THEN h
  ELSE Res("Ok",
           [h.st EXCEPT !.blocks[d].remaining = h.val,
                        !.blocks[d].has_next_block = (h.val = MAX_LEN),
                        !.blocks[d].seen =
                          Append(@, [at |-> h.st.blocks[d].remaining, header |-> h.val])],
           0)

\* an update_remaining that reads a header whenever remaining is 0
update_remaining_eager(rs, d) ==
  IF rs.blocks[d].remaining > 0
  THEN Res("Ok", rs, 0)
  ELSE set_remaining(try_take_varint_u16(rs, d - 1, 0, 0), d)

\* SkipBlock::update_remaining of the block at level d
update_remaining(rs, d) ==
  IF rs.blocks[d].remaining > 0 \/ ~rs.blocks[d].has_next_block
  THEN Res("Ok", rs, 0)
  ELSE set_remaining(try_take_varint_u16(rs, d - 1, 0, 0), d)

\* out |= carry << (7 * i), at the width given
VarintAcc(out, val, i, width) == (out + (val % 128) * Pow2(7 * i)) % Pow2(width)

\* the body of the loop of try_take_varint_u16, the byte popped being p
varint_u16_step(p, d, i, out) ==
  IF p.err # "Ok" THEN p
  ELSE IF BHead(p.val) < 128
  THEN IF i = varint_max(16) - 1 /\ BHead(p.val) > max_of_last_byte(16)
       THEN Res("BadVarint", p.st, 0)
       ELSE Res("Ok", p.st, VarintAcc(out, BHead(p.val), i, 16))
  ELSE try_take_varint_u16(p.st, d, i + 1, VarintAcc(out, BHead(p.val), i, 16))

\* SkipStack::try_take_varint_u16 at level d, from byte i on, out so far
try_take_varint_u16(rs, d, i, out) ==
  IF i >= varint_max(16) THEN Res("BadVarint", rs, 0)
  ELSE varint_u16_step(try_take_n(rs, d, 1), d, i, out)

\* the end of one turn of the while loop: t holds the n bytes taken
take_loop_taken(t, d, ct, buf) ==
  IF t.err # "Ok" THEN t
  ELSE take_loop([t.st EXCEPT !.blocks[d].remaining = @ - BLen(t.val)],
                 d, ct - BLen(t.val), BCat(buf, t.val))

\* a turn of the while loop that takes the rest from the enclosing level
\* when the block is at its end
take_loop_turn_through(u, d, ct, buf) ==
  IF u.err # "Ok" THEN u
  ELSE IF u.st.blocks[d].remaining = 0 THEN try_take_n(u.st, d - 1, ct)
  ELSE take_loop_taken(
         try_take_n(u.st, d - 1, Min(ct, u.st.blocks[d].remaining)), d, ct, buf)

\* one turn of the while loop, u being update_remaining's result
take_loop_turn(u, d, ct, buf) ==
  IF u.err # "Ok" THEN u
  ELSE IF u.st.blocks[d].remaining = 0 THEN Res("EndOfBlock", u.st, 0)
  ELSE take_loop_taken(
         try_take_n(u.st, d - 1, Min(ct, u.st.blocks[d].remaining)), d, ct, buf)

\* the while loop of SkipBlock::try_take_n: ct bytes still wanted, buf read
take_loop(rs, d, ct, buf) ==
  IF ct = 0 THEN Res("Ok", rs, buf)
  ELSE take_loop_turn(update_remaining(rs, d), d, ct, buf)

\* the fast path's end: remaining -= ct
take_fast(t, d, ct) ==
  IF t.err # "Ok" THEN t
  ELSE Res("Ok", [t.st EXCEPT !.blocks[d].remaining = @ - ct], t.val)

\* SkipBlock::try_take_n after its first update_remaining
take_updated(u, d, ct) ==
  IF u.err # "Ok" THEN u
  ELSE IF u.st.blocks[d].remaining >= ct
  THEN take_fast(try_take_n(u.st, d - 1, ct), d, ct)
  ELSE take_loop(u.st, d, ct, BEmpty)

\* SkipBlock::try_take_n of the block at level d
SkipBlock_try_take_n(rs, d, ct) == take_updated(update_remaining(rs, d), d, ct)

\* Flavor::try_take_n of the base reader: ct bytes or an I/O error
BaseTryTakeN(rs, ct) ==
  IF BLen(rs.base) >= ct
  THEN Res("Ok", [rs EXCEPT !.base = BDrop(@, ct)], BTake(rs.base, ct))
  ELSE Res("Io", [rs EXCEPT !.base = BEmpty], 0)

\* SkipStack::try_take_n at level d
try_take_n(rs, d, ct) ==
  IF rs.dummy THEN Res("Panic", rs, 0)
  ELSE IF d = 0 THEN BaseTryTakeN(rs, ct)
  ELSE SkipBlock_try_take_n(rs, d, ct)

\* SkipStack::pop
pop(rs) == try_take_n(rs, RDepth(rs), 1)

\* SkipStack::start_skippable
start_skippable(rs) ==
  IF rs.dummy THEN Res("Panic", rs, 0)
  ELSE Res("Ok",
           [rs EXCEPT !.blocks = Append(@, [remaining |-> 0, has_next_block |-> TRUE,
                                            seen |-> <<>>])],
           0)

RECURSIVE SkipBlockDrain(_)

\* finish's loop after inner.try_take_n(remaining): remaining = 0, next turn
drain_taken(t) ==
  IF t.err # "Ok" THEN t
  ELSE SkipBlockDrain([t.st EXCEPT !.blocks[RDepth(t.st)].remaining = 0])

\* a finish that discards nothing
drain_nothing(u) == u

\* one turn of finish's loop, u being update_remaining's result
drain_turn(u) ==
  IF u.err # "Ok" THEN u
  ELSE IF u.st.blocks[RDepth(u.st)].remaining > 0
  THEN drain_taken(
         try_take_n(u.st, RDepth(u.st) - 1, u.st.blocks[RDepth(u.st)].remaining))
  ELSE u

\* the loop of SkipBlock::finish on the innermost block
SkipBlockDrain(rs) == drain_turn(update_remaining(rs, RDepth(rs)))

\* the stack left when end_skippable fails: the placeholder stays in place
DummyStack(rs) == [rs EXCEPT !.dummy = TRUE, !.blocks = <<>>, !.base = BEmpty]

\* SkipBlock::finish's return and end_skippable's assignment: the inner stack
\* on success; on an error the stack keeps the placeholder
finish_result(f) ==
  IF f.err # "Ok" THEN Res(f.err, DummyStack(f.st), 0)
  ELSE Res("Ok",
           [f.st EXCEPT !.blocks = SubSeq(@, 1, Len(@) - 1),
                        !.done = f.st.blocks[RDepth(f.st)].seen],
           0)

\* SkipStack::end_skippable
end_skippable(rs) ==
  IF rs.dummy \/ RDepth(rs) = 0 THEN Res("Panic", rs, 0)
  ELSE finish_result(SkipBlockDrain(rs))

\* SkipStack::into_inner: the reader; a panic with a block open
into_inner(rs) ==
  IF rs.dummy \/ RDepth(rs) > 0 THEN Res("Panic", rs, 0) ELSE Res("Ok", rs, rs.base)

\* ------------------------------------------------------------------------
\* Values and types of the serde data model
\*
\* A value and a type are both records [k, n, items]: k is the kind, and
\*   "u8"      n the byte
\*   "uint"    n the width (16, 32, 64, 128), items the bits of the value
\*   "int"     n the width (16, 32, 64, 128), items the bits of the value in
\*             two's complement
\*   "bytes"   items the byte string
\*   "ident"   items the name, a byte string (what deserialize_identifier
\*             hands its visitor)
\*   "unit"
\*   "tuple"   items the elements (for a type: their types)
\*   "seq"     n = 1 when serialized with a known length, items the elements
\*             (for a type: the one element type)
\*   "map"     n = 1 when serialized with a known length, items the entries
\*             (for a type: the key type and the value type)
\*   "entry"   items the key and the value
\*   "struct"  items the fields in declaration order
\*   "field"   n the field's name, items the value (for a type: the type,
\*             followed by the default value if the field declares one)
\*   "variant" n the variant's index, items the fields of the struct variant
\*   "unitvariant" n the index of a unit variant
\*   "other"   n the index of the unit variant marked #[serde(other)]: in a
\*             type the reader's catch-all, in a value what it decoded to
\*   "newtype" n the variant's index, items the value of the newtype variant
\*   "enum"    (types only) items the variants
\*   "bool"    n the byte the bool is written as
\*   "option"  n the tag, items the value if present (for a type: its type)
\* ------------------------------------------------------------------------

V(k, n, items) == [k |-> k, n |-> n, items |-> items]

VU8(n) == V("u8", n, <<>>)

VUint(width, bits) == V("uint", width, bits)

VInt(width, bits) == V("int", width, bits)

VBytes(b) == V("bytes", 0, b)

VIdent(name) == V("ident", 0, name)

VUnit == V("unit", 0, <<>>)

VTuple(items) == V("tuple", 0, items)

VSeq(known, items) == V("seq", IF known THEN 1 ELSE 0, items)

VMap(known, entries) == V("map", IF known THEN 1 ELSE 0, entries)

VEntry(key, val) == V("entry", 0, <<key, val>>)

VStruct(fields) == V("struct", 0, fields)

VField(name, val) == V("field", name, <<val>>)

VVariant(idx, fields) == V("variant", idx, fields)

VUnitVariant(idx) == V("unitvariant", idx, <<>>)

VOther(idx) == V("other", idx, <<>>)

\* a bool, n the byte it is written as; an option, n the tag and items the
\* value when present; a newtype variant, items the value
VBool(b) == V("bool", IF b THEN TRUE_BYTE ELSE FALSE_BYTE, <<>>)

VNone == V("option", NONE, <<>>)

VSome(v) == V("option", SOME, <<v>>)

VNewtypeVariant(idx, v) == V("newtype", idx, <<v>>)

TBool == V("bool", 0, <<>>)

TOption(ty) == V("option", 0, <<ty>>)

TU8 == V("u8", 0, <<>>)

TUint(width) == V("uint", width, <<>>)

TInt(width) == V("int", width, <<>>)

TBytes == V("bytes", 0, <<>>)

TIdent == V("ident", 0, <<>>)

TSeq(elem) == V("seq", 0, <<elem>>)

TMap(key, val) == V("map", 0, <<key, val>>)

\* a field that declares a default value
TFieldDefault(name, ty, default) == V("field", name, <<ty, default>>)

\* a field that declares none
TField(name, ty) == V("field", name, <<ty>>)

TEnum(variants) == V("enum", 0, variants)

\* format!("_{id}")
NumberedName(id) ==
  BCat(BRep(95, 1),
       IF id < 10 THEN BRep(48 + id, 1)
       ELSE BCat(BRep(48 + (id \div 10), 1), BRep(48 + (id % 10), 1)))

\* the name of field number n: "a", "b", "c", ... for n < 100, "_0", "_1", ...
\* for n = 100, 101, ... and the letter n repeated n - 1000 times from 1000 on
FieldName(n) ==
  IF n < 100 THEN BRep(96 + n, 1)
  ELSE IF n < 1000 THEN NumberedName(n - 100)
  ELSE BRep(110, n - 1000)

\* the name of variant number n: "A", "B", "C", ... for n < 100, and as the
\* field names beyond
VariantName(n) == IF n < 100 THEN BRep(65 + n, 1) ELSE FieldName(n)

\* ------------------------------------------------------------------------
\* Serializer (ser/serializer.rs)
\*
\* The serializer is [err, full, output]: the error that ended it ("Ok" when
\* none), whether CFG::with_identifiers() holds, and its SkipWrite. An
\* operation on a serializer that has failed leaves it as it is (the ? of
\* every call).
\* ------------------------------------------------------------------------

\* Serializer::new
SerializerNew(full) == [err |-> "Ok", full |-> full, output |-> SkipWriteNew]

\* the ? after an operation of self.output: an error of the writer is the
\* serializer's error
OutputTaken(sz, out) == [sz EXCEPT !.output = out, !.err = IF out.err THEN "Io" ELSE @]

\* self.output.write(data)?
OutputWrite(sz, data) ==
  IF sz.err # "Ok" THEN sz ELSE OutputTaken(sz, SkipWrite_write(sz.output, data))

\* self.output.start_skippable()
OutputStart(sz) ==
  IF sz.err # "Ok" THEN sz ELSE [sz EXCEPT !.output = SkipWrite_start_skippable(@)]

\* self.output.end_skippable()
OutputEnd(sz) ==
  IF sz.err # "Ok" THEN sz ELSE OutputTaken(sz, SkipWrite_end_skippable(sz.output))

\* return Err(e)
SerFail(sz, e) == IF sz.err # "Ok" THEN sz ELSE [sz EXCEPT !.err = e]

\* Serializer::write_u64 / write_u32 / write_u16 / write_u128 of a value
\* given as bits
write_bits(sz, bits) == OutputWrite(sz, BOf(varint_bits(bits, 0)))

\* Serializer::write_usize: the value as a u64
write_usize(sz, n) == write_bits(sz, IntToBits(n, 64))

\* Serializer::write_u32
write_u32(sz, n) == write_bits(sz, IntToBits(n, 32))

\* a ^ b on values kept as bits
Xor(a, b) == [i \in 1..Len(a) |-> (a[i] + b[i]) % 2]

\* zig_zag_i16 / i32 / i64 / i128: ((n << 1) ^ (n >> (width - 1))) as unsigned,
\* the right shift being arithmetic
zig_zag(n) ==
  Xor([i \in 1..Len(n) |-> IF i = 1 THEN 0 ELSE n[i - 1]],
      [i \in 1..Len(n) |-> n[Len(n)]])

\* serialize_i16 / i32 / i64 / i128
serialize_int(sz, bits) == write_bits(sz, zig_zag(bits))

\* serialize_u8
serialize_u8(sz, n) == OutputWrite(sz, BRep(n, 1))

\* serialize_bytes
serialize_bytes(sz, b) == OutputWrite(write_usize(sz, BLen(b)), b)

\* serialize_str
serialize_str(sz, b) == OutputWrite(write_usize(sz, BLen(b)), b)

\* serialize_seq: len is the length when known
serialize_seq(sz, known, len) ==
  IF known /\ len = SPECIAL_LEN
  THEN write_usize(write_usize(sz, SPECIAL_LEN), SPECIAL_LEN)
  ELSE IF known THEN write_usize(sz, len)
  ELSE OutputStart(write_usize(write_usize(sz, SPECIAL_LEN), UNKNOWN_LEN))

\* SeqSerializer::end
SeqSerializer_end(sz, known) == IF known THEN sz ELSE OutputEnd(sz)

\* serialize_map: len is the length when known
serialize_map(sz, known, len) ==
  IF ~known THEN SerFail(sz, "SerializeSeqLengthUnknown") ELSE write_usize(sz, len)

\* serialize_struct
serialize_struct(sz, len) ==
  IF sz.full THEN write_usize(sz, len) ELSE OutputStart(write_usize(sz, len))

\* the variant tag of serialize_struct_variant
serialize_variant_tag(sz, idx) ==
  IF sz.full THEN serialize_str(sz, VariantName(idx)) ELSE write_u32(sz, idx)

\* serialize_unit_variant
serialize_unit_variant(sz, idx) == serialize_variant_tag(sz, idx)

\* serialize_bool
serialize_bool(sz, n) == serialize_u8(sz, n)

\* serialize_none
serialize_none(sz) == serialize_u8(sz, NONE)

\* serialize_some before value.serialize(self)
serialize_some(sz) == serialize_u8(sz, SOME)

\* serialize_newtype_variant before value.serialize(self)
serialize_newtype_variant(sz, idx) == serialize_variant_tag(sz, idx)

\* serialize_struct_variant
serialize_struct_variant(sz, idx, len) ==
  serialize_struct(serialize_variant_tag(sz, idx), len)

\* SerializeStruct::end / SerializeStructVariant::end
SerializeStruct_end(sz) == IF sz.full THEN sz ELSE OutputEnd(sz)

RECURSIVE Serialize(_, _)
RECURSIVE SerializeElements(_, _, _, _)
RECURSIVE SerializeFields(_, _, _)

\* serialize_field with the identifier written inside the field's block
serialize_field_inside(sz, key, val) ==
  IF sz.full
  THEN OutputEnd(Serialize(serialize_str(OutputStart(sz), key), val))
  ELSE Serialize(sz, val)

\* SerializeStruct::serialize_field
serialize_field(sz, key, val) ==
  IF sz.full
  THEN OutputEnd(Serialize(OutputStart(serialize_str(sz, key)), val))
  ELSE Serialize(sz, val)

\* the calls for the items lo..hi once those before them gave first (the ?
\* of every call)
SerializeRest(first, items, lo, hi) ==
  IF first.err # "Ok" THEN first ELSE SerializeElements(first, items, lo, hi)

\* the serialize_element / serialize_key / serialize_value calls of the
\* items lo..hi in order; the calls of a long range are those of its first
\* half followed by those of its second half, which keeps the evaluation
\* shallow
SerializeElements(sz, items, lo, hi) ==
  IF lo > hi THEN sz
  ELSE IF lo = hi THEN Serialize(sz, items[lo])
  ELSE SerializeRest(SerializeElements(sz, items, lo, (lo + hi) \div 2),
                     items, ((lo + hi) \div 2) + 1, hi)

\* the serialize_field calls of the fields from the i-th on
SerializeFields(sz, fields, i) ==
  IF i > Len(fields) THEN sz
  ELSE SerializeFields(
         serialize_field(sz, FieldName(fields[i].n), fields[i].items[1]),
         fields, i + 1)

\* Serialize::serialize of the value v
Serialize(sz, v) ==
  CASE v.k = "u8" -> serialize_u8(sz, v.n)
    [] v.k = "uint" -> write_bits(sz, v.items)
    [] v.k = "int" -> serialize_int(sz, v.items)
    [] v.k = "bytes" -> serialize_bytes(sz, v.items)
    [] v.k = "unit" -> sz
    [] v.k = "tuple" -> SerializeElements(sz, v.items, 1, Len(v.items))
    [] v.k = "entry" -> SerializeElements(sz, v.items, 1, Len(v.items))
    [] v.k = "seq" ->
         SeqSerializer_end(
           SerializeElements(serialize_seq(sz, v.n = 1, Len(v.items)), v.items, 1, Len(v.items)),
           v.n = 1)
    [] v.k = "map" ->
         SerializeElements(serialize_map(sz, v.n = 1, Len(v.items)), v.items, 1,
                           Len(v.items))
    [] v.k = "struct" ->
         SerializeStruct_end(
           SerializeFields(serialize_struct(sz, Len(v.items)), v.items, 1))
    [] v.k = "unitvariant" -> serialize_unit_variant(sz, v.n)
    [] v.k = "bool" -> serialize_bool(sz, v.n)
    [] v.k = "option" ->
         IF v.items = <<>> THEN serialize_none(sz)
         ELSE Serialize(serialize_some(sz), v.items[1])
    [] v.k = "newtype" -> Serialize(serialize_newtype_variant(sz, v.n), v.items[1])
    [] v.k = "variant" ->
         SerializeStruct_end(
           SerializeFields(serialize_struct_variant(sz, v.n, Len(v.items)), v.items, 1))

\* Serializer::finalize: self.output.into_inner()
Serializer_finalize(sz) ==
  IF sz.err # "Ok" THEN sz ELSE [sz EXCEPT !.output = SkipWrite_into_inner(@)]

\* ser::serialize: the bytes written, or the error
to_bytes(full, v) == Serializer_finalize(Serialize(SerializerNew(full), v))

\* ------------------------------------------------------------------------
\* Deserializer (de/deserializer.rs)
\*
\* The deserializer's state is its SkipStack; full tells whether
\* CFG::with_identifiers() holds. Every operation returns [err, st, val] as
\* the skip stack's operations do; strings are ASCII.
\* ------------------------------------------------------------------------

\* self.input.read_u8()
read_u8(rs) == pop(rs)

\* self.input.read(len)
read(rs, len) == try_take_n(rs, RDepth(rs), len)

\* out |= carry << (7 * i), carry being val & 0x7F, on a value kept as bits
OrShift7(out, val, i) ==
  [j \in 1..Len(out) |->
     IF j > 7 * i /\ j <= 7 * i + 7 /\ (val \div Pow2(j - 7 * i - 1)) % 2 = 1
     THEN 1 ELSE out[j]]

RECURSIVE read_varint(_, _, _, _)

\* a read_varint that accepts any last byte and keeps no bits of it
read_varint_drop_last(p, width, i, out) ==
  IF p.err # "Ok" THEN p
  ELSE IF BHead(p.val) < 128 THEN Res("Ok", p.st, out)
  ELSE read_varint(p.st, width, i + 1, OrShift7(out, BHead(p.val), i))

\* the body of the loop of read_varint_u16 / u32 / u64 / u128, the byte read
\* being p
read_varint_step(p, width, i, out) ==
  IF p.err # "Ok" THEN p
  ELSE IF BHead(p.val) < 128
  THEN IF i = varint_max(width) - 1 /\ BHead(p.val) > max_of_last_byte(width)
       THEN Res("BadVarint", p.st, 0)
       ELSE Res("Ok", p.st, OrShift7(out, BHead(p.val), i))
  ELSE read_varint(p.st, width, i + 1, OrShift7(out, BHead(p.val), i))

\* a read_varint that takes bytes past the last one permitted
read_varint_unbounded(rs, width, i, out) == read_varint_step(read_u8(rs), width, i, out)

\* read_varint_u16 / u32 / u64 / u128 from byte i on, out so far
read_varint(rs, width, i, out) ==
  IF i >= varint_max(width) THEN Res("BadVarint", rs, 0)
  ELSE read_varint_step(read_u8(rs), width, i, out)

read_varint_u16(rs) == read_varint(rs, 16, 0, IntToBits(0, 16))

read_varint_u32(rs) == read_varint(rs, 32, 0, IntToBits(0, 32))

read_varint_u64(rs) == read_varint(rs, 64, 0, IntToBits(0, 64))

read_varint_u128(rs) == read_varint(rs, 128, 0, IntToBits(0, 128))

\* the read_varint of the width
read_varint_of(rs, width) ==
  CASE width = 16 -> read_varint_u16(rs)
    [] width = 32 -> read_varint_u32(rs)
    [] width = 64 -> read_varint_u64(rs)
    [] width = 128 -> read_varint_u128(rs)

\* a length no input of the model reaches, standing for every usize of 2^30
\* and more
UsizeHuge == Pow2(30)

\* usize::try_from(value) of the u64 read
usize_from(h) ==
  IF h.err # "Ok" THEN h
  ELSE Res("Ok", h.st, IF FitsInt(h.val) THEN BitsToInt(h.val) ELSE UsizeHuge)

\* try_take_varint_usize
try_take_varint_usize(rs) == usize_from(read_varint_u64(rs))

\* String::from_utf8(bytes).is_ok(), for ASCII strings
IsUtf8(b) == \A j \in 1..Len(b) : b[j][1] < 128

\* read_identifier: String::from_utf8 of the bytes read
ident_bytes(p) ==
  IF p.err # "Ok" THEN p
  ELSE IF IsUtf8(p.val) THEN p ELSE Res("BadIdentifier", p.st, 0)

\* read_identifier: the length that follows ID_LEN
ident_len(h) == IF h.err # "Ok" THEN h ELSE ident_bytes(read(h.st, h.val))

\* a read_identifier that takes every first varint from ID_LEN_NAME on for a
\* numbered name
ident_first_unchecked(h) ==
  IF h.err # "Ok" THEN h
  ELSE IF h.val >= ID_LEN_NAME THEN Res("Ok", h.st, NumberedName((h.val - ID_LEN_NAME) % 100))
  ELSE IF h.val = ID_LEN THEN ident_len(try_take_varint_usize(h.st))
  ELSE ident_bytes(read(h.st, h.val))

\* read_identifier after its first varint
ident_first(h) ==
  IF h.err # "Ok" THEN h
  ELSE IF h.val >= ID_LEN_NAME + ID_COUNT THEN Res("BadIdentifier", h.st, 0)
  ELSE IF h.val >= ID_LEN_NAME THEN Res("Ok", h.st, NumberedName(h.val - ID_LEN_NAME))
  ELSE IF h.val = ID_LEN THEN ident_len(try_take_varint_usize(h.st))
  ELSE ident_bytes(read(h.st, h.val))

\* read_identifier
read_identifier(rs) == ident_first(try_take_varint_usize(rs))

\* deserialize_identifier: visit_string of the identifier read
de_ident(p) == IF p.err # "Ok" THEN p ELSE Res("Ok", p.st, VIdent(p.val))

\* deserialize_identifier
deserialize_identifier(rs) == de_ident(read_identifier(rs))

\* a deserialize_bool that takes every byte but 0 for true
de_bool_nonzero(p) ==
  IF p.err # "Ok" THEN p ELSE Res("Ok", p.st, VBool(BHead(p.val) # FALSE_BYTE))

\* deserialize_bool: visit_bool of the byte read, BadBool without a visit
de_bool(p) ==
  IF p.err # "Ok" THEN p
  ELSE IF BHead(p.val) = FALSE_BYTE THEN Res("Ok", p.st, VBool(FALSE))
  ELSE IF BHead(p.val) = TRUE_BYTE THEN Res("Ok", p.st, VBool(TRUE))
  ELSE Res("BadBool", p.st, 0)

\* visit_some gave the value s
option_some(s) == IF s.err # "Ok" THEN s ELSE Res("Ok", s.st, VSome(s.val))

\* deserialize_u8: visit_u8 of the byte read
de_u8(p) == IF p.err # "Ok" THEN p ELSE Res("Ok", p.st, VU8(BHead(p.val)))

\* deserialize_u16 / u32 / u64 / u128: visit of the integer read
de_uint(h, width) == IF h.err # "Ok" THEN h ELSE Res("Ok", h.st, VUint(width, h.val))

\* an unfold that leaves out the sign: (n >> 1) as signed
de_zig_zag_unsigned(n) == [i \in 1..Len(n) |-> IF i = Len(n) THEN 0 ELSE n[i + 1]]

\* de_zig_zag_i16 / i32 / i64 / i128: ((n >> 1) as signed) ^ (-((n & 1) as
\* signed)), the right shift being logical
de_zig_zag(n) ==
  Xor([i \in 1..Len(n) |-> IF i = Len(n) THEN 0 ELSE n[i + 1]],
      [i \in 1..Len(n) |-> n[1]])

\* deserialize_i16 / i32 / i64 / i128: visit of the integer unfolded
de_int(h, width) ==
  IF h.err # "Ok" THEN h ELSE Res("Ok", h.st, VInt(width, de_zig_zag(h.val)))

\* deserialize_byte_buf: visit_byte_buf of the bytes read
de_bytes_val(p) == IF p.err # "Ok" THEN p ELSE Res("Ok", p.st, VBytes(p.val))

\* deserialize_byte_buf after the length
de_bytes_len(h) == IF h.err # "Ok" THEN h ELSE de_bytes_val(read(h.st, h.val))

\* deserialize_byte_buf
deserialize_byte_buf(rs) == de_bytes_len(try_take_varint_usize(rs))

\* the length Some(len), as <<known, len>>
LenKnown(len) == <<TRUE, len>>

\* the length None
LenUnknown == <<FALSE, 0>>

\* deserialize_seq / deserialize_map: UNKNOWN_LEN => start_skippable, None
len_unknown(s) == IF s.err # "Ok" THEN s ELSE Res("Ok", s.st, LenUnknown)

\* a match that takes whatever follows SPECIAL_LEN, if not UNKNOWN_LEN, for
\* the length SPECIAL_LEN
len_second_lax(h) ==
  IF h.err # "Ok" THEN h
  ELSE IF h.val = UNKNOWN_LEN THEN len_unknown(start_skippable(h.st))
  ELSE Res("Ok", h.st, LenKnown(SPECIAL_LEN))

\* deserialize_seq / deserialize_map: the match on what follows SPECIAL_LEN
len_second(h) ==
  IF h.err # "Ok" THEN h
  ELSE IF h.val = SPECIAL_LEN THEN Res("Ok", h.st, LenKnown(SPECIAL_LEN))
  ELSE IF h.val = UNKNOWN_LEN THEN len_unknown(start_skippable(h.st))
  ELSE Res("BadLen", h.st, 0)

\* deserialize_seq / deserialize_map: the match on the first varint
len_first(h) ==
  IF h.err # "Ok" THEN h
  ELSE IF h.val = SPECIAL_LEN THEN len_second(try_take_varint_usize(h.st))
  ELSE Res("Ok", h.st, LenKnown(h.val))

\* deserialize_seq / deserialize_map: let len = ...
read_len(rs) == len_first(try_take_varint_usize(rs))

\* end_skippable()?; Ok(value)
block_closed(e, val) == IF e.err # "Ok" THEN e ELSE Res("Ok", e.st, val)

\* let value = visit(..)?; self.input.end_skippable()?; Ok(value)
close_block(v) == IF v.err # "Ok" THEN v ELSE block_closed(end_skippable(v.st), v.val)

RECURSIVE Deserialize(_, _, _)
RECURSIVE TupleLoop(_, _, _, _, _)
RECURSIVE SeqTurns(_, _, _, _)
RECURSIVE visit_seq(_, _, _, _)
RECURSIVE MapTurns(_, _, _, _)
RECURSIVE visit_map(_, _, _, _)
RECURSIVE FieldLoop(_, _, _, _, _)
RECURSIVE SlimLoop(_, _, _, _, _, _)

\* the tuple visitor's visit_seq: next_element_seed above gave e
TupleNext(e, tys, i, acc, full) ==
  IF e.err # "Ok" THEN e ELSE TupleLoop(e.st, tys, i + 1, Append(acc, e.val), full)

\* deserialize_tuple: the visitor takes one element for each type of tys;
\* SeqAccess::next_element_seed with len = Some(n), n > 0
TupleLoop(rs, tys, i, acc, full) ==
  IF i > Len(tys) THEN Res("Ok", rs, VTuple(acc))
  ELSE TupleNext(Deserialize(rs, tys[i], full), tys, i, acc, full)

\* SeqAccess / MapAccess as the visitor holds it: the deserializer's state
\* with val = [len, acc, done], len the access's len (<<known, n>>), acc the
\* elements the visitor has collected, done whether the access answered None
Access(rs, len) == Res("Ok", rs, [len |-> len, acc |-> <<>>, done |-> FALSE])

\* *len -= 1 for Some(len), None as it is
LenLess(len) == IF len[1] THEN LenKnown(len[2] - 1) ELSE len

\* a next_element_seed that lets Err(EndOfBlock) through
element_read_strict(e, av) ==
  IF e.err = "Ok"
  THEN Res("Ok", e.st,
           [len |-> LenLess(av.len), acc |-> Append(av.acc, e.val), done |-> FALSE])
  ELSE Res(e.err, e.st, av)

\* SeqAccess::next_element_seed past Some(0): the seed gave e; with
\* len = None, Err(EndOfBlock) => Ok(None)
element_read(e, av) ==
  IF e.err = "Ok"
  THEN Res("Ok", e.st,
           [len |-> LenLess(av.len), acc |-> Append(av.acc, e.val), done |-> FALSE])
  ELSE IF ~av.len[1] /\ e.err = "EndOfBlock"
  THEN Res("Ok", e.st, [av EXCEPT !.done = TRUE])
  ELSE Res(e.err, e.st, av)

\* the visitor's loop after a turn t from a: a turn with len = None that
\* gave an element and left the input as it was is followed by the same
\* turn again, without end; "Hang" stands for the loop that never returns
turn_taken(a, t) ==
  IF t.err = "Ok" /\ ~t.val.done /\ ~a.val.len[1] /\ t.st = a.st
  THEN Res("Hang", t.st, t.val)
  ELSE t

\* one turn of the Vec visitor's loop: SeqAccess::next_element_seed of an
\* element of type ty; nothing once the access answered None or failed
next_element_seed(a, ty, full) ==
  IF a.err # "Ok" \/ a.val.done THEN a
  ELSE IF a.val.len[1] /\ a.val.len[2] = 0 THEN [a EXCEPT !.val.done = TRUE]
  ELSE turn_taken(a, element_read(Deserialize(a.st, ty, full), a.val))

\* the k turns that follow those that gave first
SeqTurnsRest(first, ty, full, k) ==
  IF first.err # "Ok" \/ first.val.done THEN first ELSE SeqTurns(first, ty, full, k)

\* k turns of the Vec visitor's loop: those of the first half of them
\* followed by the rest, which keeps the evaluation shallow
SeqTurns(a, ty, full, k) ==
  IF k = 1 THEN next_element_seed(a, ty, full)
  ELSE SeqTurnsRest(SeqTurns(a, ty, full, k \div 2), ty, full, k - (k \div 2))

\* the Vec visitor's visit_seq: while let Some(value) = seq.next_element()?,
\* taken k turns, then 2k turns, ... until the access answers None or fails
visit_seq(a, ty, full, k) ==
  IF a.err # "Ok" \/ a.val.done THEN a
  ELSE visit_seq(SeqTurns(a, ty, full, k), ty, full, 2 * k)

\* deserialize_seq after visit_seq: end_skippable if the length is unknown
seq_end(a, known) ==
  IF a.err # "Ok" THEN Res(a.err, a.st, 0)
  ELSE IF known THEN Res("Ok", a.st, VSeq(TRUE, a.val.acc))
  ELSE block_closed(end_skippable(a.st), VSeq(FALSE, a.val.acc))

\* deserialize_seq after the length
seq_visit(l, ty, full) ==
  IF l.err # "Ok" THEN l
  ELSE seq_end(visit_seq(Access(l.st, l.val), ty, full, 1), l.val[1])

\* deserialize_seq of elements of type ty
deserialize_seq(rs, ty, full) == seq_visit(read_len(rs), ty, full)

\* BTreeMap::insert of the u8-keyed entry e into the entries acc
MapInsert(acc, e) ==
  LET Below(x) == x.items[1].n < e.items[1].n
      Above(x) == x.items[1].n > e.items[1].n
  IN  SelectSeq(acc, Below) \o <<e>> \o SelectSeq(acc, Above)

\* MapAccess::next_value_seed gave v for the key
value_read(v, key, av) ==
  IF v.err # "Ok" THEN Res(v.err, v.st, av)
  ELSE Res("Ok", v.st,
           [len |-> LenLess(av.len), acc |-> MapInsert(av.acc, VEntry(key, v.val)),
            done |-> FALSE])

\* MapAccess::next_key_seed past Some(0): the seed gave k; with len = None,
\* Err(EndOfBlock) => Ok(None)
key_read(k, av, ty, full) ==
  IF k.err = "Ok" THEN value_read(Deserialize(k.st, ty.items[2], full), k.val, av)
  ELSE IF ~av.len[1] /\ k.err = "EndOfBlock"
  THEN Res("Ok", k.st, [av EXCEPT !.done = TRUE])
  ELSE Res(k.err, k.st, av)

\* one turn of the map visitor's loop: MapAccess::next_key_seed and
\* next_value_seed of the map type ty
next_entry_seed(a, ty, full) ==
  IF a.err # "Ok" \/ a.val.done THEN a
  ELSE IF a.val.len[1] /\ a.val.len[2] = 0 THEN [a EXCEPT !.val.done = TRUE]
  ELSE turn_taken(a, key_read(Deserialize(a.st, ty.items[1], full), a.val, ty, full))

\* the k turns that follow those that gave first
MapTurnsRest(first, ty, full, k) ==
  IF first.err # "Ok" \/ first.val.done THEN first ELSE MapTurns(first, ty, full, k)

\* k turns of the map visitor's loop
MapTurns(a, ty, full, k) ==
  IF k = 1 THEN next_entry_seed(a, ty, full)
  ELSE MapTurnsRest(MapTurns(a, ty, full, k \div 2), ty, full, k - (k \div 2))

\* the map visitor's visit_map: while let Some((key, value)) =
\* map.next_entry()?
visit_map(a, ty, full, k) ==
  IF a.err # "Ok" \/ a.val.done THEN a
  ELSE visit_map(MapTurns(a, ty, full, k), ty, full, 2 * k)

\* deserialize_map after visit_map: end_skippable if the length is unknown
map_end(a, known) ==
  IF a.err # "Ok" THEN Res(a.err, a.st, 0)
  ELSE IF known THEN Res("Ok", a.st, VMap(TRUE, a.val.acc))
  ELSE block_closed(end_skippable(a.st), VMap(FALSE, a.val.acc))

\* deserialize_map after the length
map_visit(l, ty, full) ==
  IF l.err # "Ok" THEN l
  ELSE map_end(visit_map(Access(l.st, l.val), ty, full, 1), l.val[1])

\* deserialize_map of the map type ty
deserialize_map(rs, ty, full) == map_visit(read_len(rs), ty, full)

\* the struct visitor's state: no field seen yet
NoneYet(fields) == [i \in 1..Len(fields) |-> V("none", 0, <<>>)]

\* the field visitor: the index of the field named name, 0 for a name the
\* struct does not declare (__ignore)
FieldIndex(fields, name) ==
  IF \E i \in 1..Len(fields) : FieldName(fields[i].n) = name
  THEN CHOOSE i \in 1..Len(fields) : FieldName(fields[i].n) = name
  ELSE 0

\* the end of the struct visitor's visit_map: a field not seen takes its
\* default; missing_field if it declares none
struct_finish(rs, fields, got) ==
  IF \E i \in 1..Len(fields) : got[i].k = "none" /\ Len(fields[i].items) < 2
  THEN Res("Custom", rs, 0)
  ELSE Res("Ok", rs,
           VStruct([i \in 1..Len(fields) |->
                      VField(fields[i].n,
                             IF got[i].k = "some" THEN got[i].items[1]
                             ELSE fields[i].items[2])]))

\* StructFieldAccess::next_value_seed: end_skippable gave e
FieldClosed(e, val, idx, fields, len, got, full) ==
  IF e.err # "Ok" THEN e
  ELSE FieldLoop(e.st, fields, len,
                 IF idx = 0 THEN got ELSE [got EXCEPT ![idx] = V("some", 0, <<val>>)],
                 full)

\* a next_value_seed that leaves the field's block open
FieldRead_open(v, idx, fields, len, got, full) ==
  IF v.err # "Ok" THEN v
  ELSE FieldClosed(Res("Ok", v.st, 0), v.val, idx, fields, len, got, full)

\* StructFieldAccess::next_value_seed: the seed gave v
FieldRead(v, idx, fields, len, got, full) ==
  IF v.err # "Ok" THEN v
  ELSE FieldClosed(end_skippable(v.st), v.val, idx, fields, len, got, full)

\* StructFieldAccess::next_value_seed after start_skippable: the field's
\* type, or IgnoredAny (deserialize_ignored_any: visit_unit) for __ignore
FieldOpened(s, idx, fields, len, got, full) ==
  IF s.err # "Ok" THEN s
  ELSE FieldRead(IF idx = 0 THEN Res("Ok", s.st, VUnit)
                 ELSE Deserialize(s.st, fields[idx].items[1], full),
                 idx, fields, len, got, full)

\* the struct visitor's visit_map: duplicate_field, or next_value
FieldValue(rs, idx, fields, len, got, full) ==
  IF idx > 0 /\ got[idx].k = "some" THEN Res("Custom", rs, 0)
  ELSE FieldOpened(start_skippable(rs), idx, fields, len, got, full)

\* StructFieldAccess::next_key_seed, len = len + 1, gave the identifier id
FieldKey(id, fields, len, got, full) ==
  IF id.err # "Ok" THEN id
  ELSE FieldValue(id.st, FieldIndex(fields, id.val), fields, len, got, full)

\* the struct visitor's visit_map over StructFieldAccess with len keys left
FieldLoop(rs, fields, len, got, full) ==
  IF len = 0 THEN struct_finish(rs, fields, got)
  ELSE FieldKey(read_identifier(rs), fields, len - 1, got, full)

\* StructSeqAccess::next_element_seed gave e for field i
SlimNext(e, fields, i, len, acc, full) ==
  IF e.err # "Ok" THEN e
  ELSE SlimLoop(e.st, fields, i + 1, len, Append(acc, VField(fields[i].n, e.val)), full)

\* the struct visitor's visit_seq over StructSeqAccess with len elements
\* left, from field i on: None gives the default; invalid_length if the
\* field declares none
SlimLoop(rs, fields, i, len, acc, full) ==
  IF i > Len(fields) THEN Res("Ok", rs, VStruct(acc))
  ELSE IF len > 0
  THEN SlimNext(Deserialize(rs, fields[i].items[1], full), fields, i, len - 1, acc, full)
  ELSE IF Len(fields[i].items) >= 2
  THEN SlimLoop(rs, fields, i + 1, 0,
                Append(acc, VField(fields[i].n, fields[i].items[2])), full)
  ELSE Res("Custom", rs, 0)

\* a deserialize_struct that does not close the struct's block
slim_opened_noclose(s, fields, len, full) ==
  IF s.err # "Ok" THEN s ELSE SlimLoop(s.st, fields, 1, len, <<>>, full)

\* deserialize_struct without identifiers, after start_skippable
slim_opened(s, fields, len, full) ==
  IF s.err # "Ok" THEN s
  ELSE close_block(SlimLoop(s.st, fields, 1, len, <<>>, full))

\* deserialize_struct after the field count
struct_visit(h, fields, full) ==
  IF h.err # "Ok" THEN h
  ELSE IF full THEN FieldLoop(h.st, fields, h.val, NoneYet(fields), full)
  ELSE slim_opened(start_skippable(h.st), fields, h.val, full)

\* deserialize_struct of a struct with the fields given
deserialize_struct(rs, fields, full) ==
  struct_visit(try_take_varint_usize(rs), fields, full)

\* EnumAccess::variant_seed: the u32 index read
variant_u32(h) == IF h.err # "Ok" THEN h ELSE Res("Ok", h.st, BitsToInt(h.val))

\* EnumAccess::variant_seed: the identifier, or the u32 index
variant_seed(rs, full) ==
  IF full THEN read_identifier(rs) ELSE variant_u32(read_varint_u32(rs))

\* a variant visitor that knows no catch-all
VariantIndex_declared(variants, tag, full) ==
  IF \E i \in 1..Len(variants) :
       IF full THEN VariantName(variants[i].n) = tag ELSE variants[i].n = tag
  THEN CHOOSE i \in 1..Len(variants) :
         IF full THEN VariantName(variants[i].n) = tag ELSE variants[i].n = tag
  ELSE 0

\* the variant visitor: the position of the variant the tag names; for a tag
\* the enum does not declare, that of its #[serde(other)] variant, 0 if it
\* has none
VariantIndex(variants, tag, full) ==
  IF \E i \in 1..Len(variants) :
       IF full THEN VariantName(variants[i].n) = tag ELSE variants[i].n = tag
  THEN CHOOSE i \in 1..Len(variants) :
         IF full THEN VariantName(variants[i].n) = tag ELSE variants[i].n = tag
  ELSE IF \E i \in 1..Len(variants) : variants[i].k = "other"
  THEN CHOOSE i \in 1..Len(variants) : variants[i].k = "other"
  ELSE 0

\* VariantAccess::unit_variant: Ok(()), nothing read
unit_variant(rs, variant) == Res("Ok", rs, V(variant.k, variant.n, <<>>))

\* deserialize_option after read_u8: visit_none, visit_some or BadOption
option_tag(p, ty, full) ==
  IF p.err # "Ok" THEN p
  ELSE IF BHead(p.val) = NONE THEN Res("Ok", p.st, VNone)
  ELSE IF BHead(p.val) = SOME THEN option_some(Deserialize(p.st, ty, full))
  ELSE Res("BadOption", p.st, 0)

\* deserialize_option
deserialize_option(rs, ty, full) == option_tag(read_u8(rs), ty, full)

\* VariantAccess::newtype_variant_seed gave the value s of variant n
newtype_variant(s, n) ==
  IF s.err # "Ok" THEN s ELSE Res("Ok", s.st, VNewtypeVariant(n, s.val))

\* VariantAccess::struct_variant gave the fields s of variant n
variant_wrap(s, n) ==
  IF s.err # "Ok" THEN s ELSE Res("Ok", s.st, VVariant(n, s.val.items))

\* the enum visitor's visit_enum: unknown_variant, unit_variant or
\* struct_variant
variant_chosen(rs, idx, variants, full) ==
  IF idx = 0 THEN Res("Custom", rs, 0)
  ELSE IF variants[idx].k \in {"unitvariant", "other"} THEN unit_variant(rs, variants[idx])
  ELSE IF variants[idx].k = "newtype"
  THEN newtype_variant(Deserialize(rs, variants[idx].items[1], full), variants[idx].n)
  ELSE variant_wrap(deserialize_struct(rs, variants[idx].items, full), variants[idx].n)

\* deserialize_enum after variant_seed
enum_visit(t, variants, full) ==
  IF t.err # "Ok" THEN t
  ELSE variant_chosen(t.st, VariantIndex(variants, t.val, full), variants, full)

\* deserialize_enum
deserialize_enum(rs, variants, full) == enum_visit(variant_seed(rs, full), variants, full)

\* Deserialize::deserialize of a value of type ty
Deserialize(rs, ty, full) ==
  CASE ty.k = "u8" -> de_u8(read_u8(rs))
    [] ty.k = "uint" -> de_uint(read_varint_of(rs, ty.n), ty.n)
    [] ty.k = "int" -> de_int(read_varint_of(rs, ty.n), ty.n)
    [] ty.k = "bytes" -> deserialize_byte_buf(rs)
    [] ty.k = "unit" -> Res("Ok", rs, VUnit)
    [] ty.k = "ident" -> deserialize_identifier(rs)
    [] ty.k = "tuple" -> TupleLoop(rs, ty.items, 1, <<>>, full)
    [] ty.k = "seq" -> deserialize_seq(rs, ty.items[1], full)
    [] ty.k = "map" -> deserialize_map(rs, ty, full)
    [] ty.k = "struct" -> deserialize_struct(rs, ty.items, full)
    [] ty.k = "enum" -> deserialize_enum(rs, ty.items, full)
    [] ty.k = "bool" -> de_bool(read_u8(rs))
    [] ty.k = "option" -> deserialize_option(rs, ty.items[1], full)

\* Deserializer::finalize gave f after T::deserialize gave t
finalized(f, t) == IF f.err # "Ok" THEN Res(f.err, t.st, 0) ELSE t

\* Deserializer::finalize: self.input.into_inner()
Deserializer_finalize(t) == IF t.err # "Ok" THEN t ELSE finalized(into_inner(t.st), t)

\* de::deserialize: the value read from the bytes, or the error
from_bytes(full, bytes, ty) ==
  Deserializer_finalize(Deserialize(SkipStackNew(bytes), ty, full))

\* ------------------------------------------------------------------------
\* A skip session: an encoder drives start_skippable / write / end_skippable
\* on a SkipWrite, into_inner hands the bytes over, and a decoder drives the
\* mirrored operations on a SkipStack over them. The decoder may stop
\* reading a block at any point and close it.
\* ------------------------------------------------------------------------

VARIABLES
  phase,    \* "enc": encoding, "dec": decoding, "done": decoder finalized
  w,        \* the encoder's SkipWrite
  ops,      \* history: the encoder's operations, in order
  closed,   \* history: what the block closed last received and emitted
  r,        \* the decoder's SkipStack
  pc,       \* the index in ops of the operation the decoder mirrors next
  reads,    \* history: the decoder's reads, <<wanted bytes, result>>
  skipped,  \* history: whether the decoder closed a block it had not read fully
  last,     \* history: the decoder's last operation and its result
  job,      \* codec run: the configuration, the value written, the reader's type
  stage,    \* codec run: "idle", "init", "enc", "dec"
  enc,      \* codec run: the serializer after serialize
  dec       \* codec run: the result of deserialize

skipVars == <<phase, w, ops, closed, r, pc, reads, skipped, last>>

codecVars == <<job, stage, enc, dec>>

vars == <<phase, w, ops, closed, r, pc, reads, skipped, last, job, stage, enc, dec>>

NoLast == [op |-> "none", err |-> "Ok", pos |-> 0, prev |-> "none",
           n |-> 0, got |-> BEmpty, rest |-> BEmpty]

\* no codec run
NoJob == [fam |-> "none", full |-> FALSE, wrap |-> "none", val |-> VUnit, ty |-> VUnit,
          raw |-> BEmpty]

\* the codec run's variables before serialize
CodecClear ==
  /\ enc = SerializerNew(FALSE)
  /\ dec = Res("Ok", SkipStackNew(BEmpty), VUnit)

\* the skip session's variables before its first operation
SkipClear ==
  /\ phase = "enc"
  /\ w = SkipWriteNew
  /\ ops = <<>>
  /\ closed = [recv |-> BEmpty, emitted |-> BEmpty, n |-> 0]
  /\ r = SkipStackNew(BEmpty)
  /\ pc = 1
  /\ reads = <<>>
  /\ skipped = FALSE
  /\ last = NoLast

\* The payloads the encoder writes: one byte, two different bytes, one byte
\* short of a full chunk, and more than a full chunk.
WriteSet ==
  { BRep(1, 1), BOf(<<4, 5>>), BRep(2, MAX_LEN - 1), BRep(3, MAX_LEN + 1) }

\* the underlying writers of a skip session: a Vec<u8>, or a fixed buffer
\* of so many bytes
WriterRooms == {0, MAX_LEN}

Init ==
  /\ phase = "enc"
  /\ \/ w = SkipWriteNew
     \/ \E room \in WriterRooms : w = SkipWriteOver(room)
  /\ ops = <<>>
  /\ closed = [recv |-> BEmpty, emitted |-> BEmpty, n |-> 0]
  /\ r = SkipStackNew(BEmpty)
  /\ pc = 1
  /\ reads = <<>>
  /\ skipped = FALSE
  /\ last = NoLast
  /\ job = NoJob /\ stage = "idle" /\ CodecClear

decVars == <<r, pc, reads, skipped, last>>

\* the encoder can still close every open block within MaxOps operations
CanOpen == Len(ops) + WDepth(w) + 2 <= MaxOps

CanWrite == Len(ops) + WDepth(w) + 1 <= MaxOps

\* SkipWrite::start_skippable
EncStart ==
  /\ phase = "enc" /\ ~w.panic /\ ~w.err
  /\ WDepth(w) < MaxDepth /\ CanOpen
  /\ w' = SkipWrite_start_skippable(w)
  /\ ops' = Append(ops, [op |-> "start", data |-> BEmpty, pos |-> 0])
  /\ UNCHANGED <<phase, closed>> /\ UNCHANGED decVars
  /\ UNCHANGED codecVars

\* SkipWrite::write
EncWrite ==
  /\ phase = "enc" /\ ~w.panic /\ ~w.err
  /\ CanWrite
  /\ \E data \in WriteSet :
       /\ w' = SkipWrite_write(w, data)
       /\ ops' = Append(ops, [op |-> "write", data |-> data, pos |-> 0])
  /\ UNCHANGED <<phase, closed>> /\ UNCHANGED decVars
  /\ UNCHANGED codecVars

\* SkipWrite::end_skippable
EncEnd ==
  /\ phase = "enc" /\ ~w.panic /\ ~w.err
  /\ WDepth(w) > 0
  /\ w' = SkipWrite_end_skippable(w)
  /\ ops' = Append(ops, [op |-> "end", data |-> BEmpty,
                         pos |-> IF w'.err THEN 0 ELSE BLen(WRecv(w', WDepth(w) - 1))])
  /\ closed' = IF w'.err THEN closed
               ELSE [recv |-> w.blocks[WDepth(w)].recv,
                     emitted |-> BDrop(WRecv(w', WDepth(w) - 1), w.blocks[WDepth(w)].mark),
                     n |-> closed.n + 1]
  /\ UNCHANGED phase /\ UNCHANGED decVars
  /\ UNCHANGED codecVars

\* SkipWrite::into_inner, and SkipStack::new over the bytes written
EncFinish ==
  /\ phase = "enc" /\ ~w.panic /\ ~w.err
  /\ WDepth(w) = 0
  /\ ops # <<>>
  /\ w' = SkipWrite_into_inner(w)
  /\ phase' = "dec"
  /\ r' = SkipStackNew(w.base)
  /\ UNCHANGED <<ops, closed, pc, reads, skipped, last>>
  /\ UNCHANGED codecVars

RECURSIVE MatchingEnd(_, _)
\* the index of the end operation that closes the block open at index i,
\* lvl blocks having been opened since
MatchingEnd(i, lvl) ==
  IF ops[i].op = "start" THEN MatchingEnd(i + 1, lvl + 1)
  ELSE IF ops[i].op = "end"
       THEN IF lvl = 0 THEN i ELSE MatchingEnd(i + 1, lvl - 1)
  ELSE MatchingEnd(i + 1, lvl)

\* the decoder goes on after every success, and after a read that failed at
\* the end of a block, to close that block
Decoding == phase = "dec" /\ pc <= Len(ops) /\ (last.err = "Ok" \/ last.op = "probe")

\* the decoder takes the result res of the operation op: the stack it left,
\* and for a read the bytes wanted and the bytes got
DecApply(op, res, isRead, want) ==
  /\ r' = res.st
  /\ last' = [NoLast EXCEPT !.op = op, !.err = res.err, !.prev = last.op,
                            !.pos = BLen(w.base) - BLen(res.st.base)]
  /\ reads' = IF isRead
              THEN Append(reads, [want |-> want, err |-> res.err, got |-> res.val])
              ELSE reads

\* SkipStack::start_skippable
DecStart ==
  /\ Decoding /\ ops[pc].op = "start"
  /\ DecApply("start", start_skippable(r), FALSE, BEmpty)
  /\ pc' = pc + 1
  /\ UNCHANGED <<phase, w, ops, closed, skipped>>
  /\ UNCHANGED codecVars

\* SkipStack::try_take_n of as many bytes as the mirrored write wrote
DecRead ==
  /\ Decoding /\ ops[pc].op = "write"
  /\ DecApply("read", try_take_n(r, RDepth(r), BLen(ops[pc].data)), TRUE, ops[pc].data)
  /\ pc' = pc + 1
  /\ UNCHANGED <<phase, w, ops, closed, skipped>>
  /\ UNCHANGED codecVars

\* SkipStack::try_take_n of only the first k bytes of the mirrored write; the
\* decoder reads no more of the block
DecReadSome ==
  /\ Decoding /\ ops[pc].op = "write" /\ RDepth(r) > 0
  /\ \E k \in {1, BLen(ops[pc].data) - 1} :
       /\ k < BLen(ops[pc].data)
       /\ DecApply("read", try_take_n(r, RDepth(r), k), TRUE, BTake(ops[pc].data, k))
  /\ pc' = MatchingEnd(pc, 0)
  /\ skipped' = TRUE
  /\ UNCHANGED <<phase, w, ops, closed>>
  /\ UNCHANGED codecVars

\* the decoder reads nothing more of the innermost block
DecSkip ==
  /\ Decoding /\ ops[pc].op # "end" /\ RDepth(r) > 0
  /\ pc' = MatchingEnd(pc, 0)
  /\ skipped' = TRUE
  /\ UNCHANGED <<phase, w, ops, closed, r, reads, last>>
  /\ UNCHANGED codecVars

RECURSIVE OnlyWrites(_)
\* from operation i to the end of its block the encoder only wrote
OnlyWrites(i) ==
  IF ops[i].op = "end" THEN TRUE
  ELSE IF ops[i].op = "start" THEN FALSE
  ELSE OnlyWrites(i + 1)

RECURSIVE RestOfBlock(_)
\* the bytes written from operation i to the end of its block
RestOfBlock(i) ==
  IF ops[i].op = "end" THEN BEmpty ELSE BCat(ops[i].data, RestOfBlock(i + 1))

\* the lengths of the reads that do not mirror a write
ProbeLens == {1, 2, MAX_LEN, MAX_LEN + 1, MAX_LEN + 2}

\* SkipStack::try_take_n of n bytes, whatever the block still holds, in a
\* block the decoder has read as far as the encoder's next write or not at
\* all; the decoder reads no more of the block
DecProbe ==
  /\ Decoding /\ RDepth(r) > 0 /\ OnlyWrites(pc)
  /\ ops[pc].op = "write" \/ (last.op = "start" /\ ops[pc - 1].op = "start")
  /\ \E n \in ProbeLens :
       /\ r' = try_take_n(r, RDepth(r), n).st
       /\ last' = [NoLast EXCEPT !.op = "probe", !.prev = last.op, !.n = n,
                                 !.err = try_take_n(r, RDepth(r), n).err,
                                 !.got = try_take_n(r, RDepth(r), n).val,
                                 !.pos = BLen(w.base) - BLen(r'.base),
                                 !.rest = RestOfBlock(pc)]
  /\ pc' = MatchingEnd(pc, 0)
  /\ skipped' = TRUE
  /\ UNCHANGED <<phase, w, ops, closed, reads>>
  /\ UNCHANGED codecVars

\* SkipStack::end_skippable
DecEnd ==
  /\ Decoding /\ ops[pc].op = "end"
  /\ DecApply("end", end_skippable(r), FALSE, BEmpty)
  /\ pc' = pc + 1
  /\ UNCHANGED <<phase, w, ops, closed, skipped>>
  /\ UNCHANGED codecVars

\* SkipStack::into_inner
DecFinish ==
  /\ phase = "dec" /\ pc = Len(ops) + 1 /\ last.err = "Ok"
  /\ DecApply("into_inner", into_inner(r), FALSE, BEmpty)
  /\ phase' = "done"
  /\ UNCHANGED <<w, ops, closed, pc, skipped>>
  /\ UNCHANGED codecVars

Next ==
  \/ EncStart \/ EncWrite \/ EncEnd \/ EncFinish
  \/ DecStart \/ DecRead \/ DecReadSome \/ DecProbe \/ DecSkip \/ DecEnd \/ DecFinish

Spec == Init /\ [][Next]_vars

\* ------------------------------------------------------------------------
\* A codec run: serialize a value under a configuration, then deserialize
\* the bytes as the reader's type. The values and types are drawn from the
\* families below; every value is followed by the byte 77, as the next
\* element of a tuple or the next field of an enclosing struct.
\* ------------------------------------------------------------------------

\* the names 1..n in ascending order
Asc(n) == [i \in 1..n |-> i]

\* the names 1..n in descending order
Desc(n) == [i \in 1..n |-> n + 1 - i]

\* whether the name i is in the set the number mask encodes
InMask(i, mask) == (mask \div Pow2(i - 1)) % 2 = 1

\* the names of order that are in mask
Names(order, mask) == LET In(i) == InMask(i, mask) IN SelectSeq(order, In)

\* one byte more than half a chunk
HalfChunk == (MAX_LEN \div 2) + 1

\* the type of the field named i, the same for writer and reader
FieldType(i) ==
  CASE i = 2 -> TSeq(TU8)
    [] i = 3 -> TBytes
    [] OTHER -> TU8

\* the value the writer gives the field named i: field 2 holds a nested skip
\* block, field 3 more than one chunk
WrittenValue(i) ==
  CASE i = 2 -> VSeq(FALSE, <<VU8(21), VU8(22)>>)
    [] i = 3 -> VBytes(BRep(9, MAX_LEN + 1))
    [] OTHER -> VU8(10 + i)

\* the default the reader declares for the field named i
DefaultValue(i) ==
  CASE i = 2 -> VSeq(TRUE, <<>>)
    [] i = 3 -> VBytes(BEmpty)
    [] OTHER -> VU8(200 + i)

\* the writer's struct with the fields names
WriterFields(names) == [j \in 1..Len(names) |-> VField(names[j], WrittenValue(names[j]))]

\* the reader's struct with the fields names; every field but field 1
\* declares a default
ReaderFields(names) ==
  [j \in 1..Len(names) |->
     IF names[j] = 1 THEN TField(1, FieldType(1))
     ELSE TFieldDefault(names[j], FieldType(names[j]), DefaultValue(names[j]))]

\* the written value around the struct fields: a tuple (struct, 77), a
\* struct {g: struct, h: 77}, or a tuple (enum variant 1, 77)
WrapValue(wrap, fields) ==
  CASE wrap = "tuple" -> VTuple(<<VStruct(fields), VU8(77)>>)
    [] wrap = "struct" ->
         VStruct(<<VField(7, VStruct(fields)), VField(8, VU8(77))>>)
    [] wrap = "variant" -> VTuple(<<VVariant(1, fields), VU8(77)>>)

\* the reader's type around the struct fields
WrapType(wrap, fields) ==
  CASE wrap = "tuple" -> VTuple(<<VStruct(fields), TU8>>)
    [] wrap = "struct" ->
         VStruct(<<TField(7, VStruct(fields)), TField(8, TU8)>>)
    [] wrap = "variant" ->
         VTuple(<<TEnum(<<VVariant(0, <<TField(1, TU8)>>), VVariant(1, fields)>>), TU8>>)

Wraps == {"tuple", "struct", "variant"}

\* a struct written with the fields wnames, read as one with the fields rnames
StructJob(full, wrap, wnames, rnames) ==
  [fam |-> "struct", full |-> full, wrap |-> wrap,
   val |-> WrapValue(wrap, WriterFields(wnames)),
   ty |-> WrapType(wrap, ReaderFields(rnames)),
   raw |-> BEmpty]

\* the lengths of sequences and maps: the small ones and those around
\* SPECIAL_LEN
Lens == (0..MaxSmall) \cup ((SPECIAL_LEN - Span)..(SPECIAL_LEN + Span))

\* n different u8 elements
ByteElements(n) == [i \in 1..n |-> VU8((3 * i) % 256)]

\* n byte strings of more than half a chunk each
BigElements(n) == [i \in 1..n |-> VBytes(BRep(i, HalfChunk))]

\* element types whose encoding is empty: unit (a unit struct) and the
\* empty tuple; the one value of each is written like the type
EmptyElements == {VUnit, VTuple(<<>>)}

\* a sequence of the items, serialized with a known or an unknown length
SeqJob(full, known, items, elem) ==
  [fam |-> "seq", full |-> full, wrap |-> "tuple",
   val |-> VTuple(<<VSeq(known, items), VU8(77)>>),
   ty |-> VTuple(<<TSeq(elem), TU8>>),
   raw |-> BEmpty]

\* a sequence of n elements whose encoding is empty
EmptySeqJob(full, known, n, e) ==
  [SeqJob(full, known, [i \in 1..n |-> e], e) EXCEPT !.fam = "zseq"]

\* the bytes SPECIAL_LEN, x and three more, read as a sequence of u8
RawSeqJob(full, x) ==
  [fam |-> "rawseq", full |-> full, wrap |-> "none",
   val |-> VUnit, ty |-> TSeq(TU8),
   raw |-> BCat(BOf(<<SPECIAL_LEN, x>>), BOf(<<1, 2, 3>>))]

\* n entries with different u8 keys in ascending order
MapEntries(n) == [i \in 1..n |-> VEntry(VU8(i - 1), VU8(255 - i))]

\* a map of n entries, serialized with a known or an unknown length
MapJob(full, known, n) ==
  [fam |-> "map", full |-> full, wrap |-> "tuple",
   val |-> VTuple(<<VMap(known, MapEntries(n)), VU8(77)>>),
   ty |-> VTuple(<<TMap(TU8, TU8), TU8>>),
   raw |-> BEmpty]

Widths == {16, 32, 64, 128}

\* the value of the width whose bits lo + 1 .. hi are set
BitRange(width, lo, hi) == [i \in 1..width |-> IF lo < i /\ i <= hi THEN 1 ELSE 0]

\* an unsigned integer of the width
UintJob(width, bits) ==
  [fam |-> "uint", full |-> FALSE, wrap |-> "tuple",
   val |-> VTuple(<<VUint(width, bits), VU8(77)>>),
   ty |-> VTuple(<<TUint(width), TU8>>),
   raw |-> BEmpty]

\* the bits complemented
Complement(bits) == [i \in 1..Len(bits) |-> 1 - bits[i]]

\* a signed integer of the width
IntJob(width, bits) ==
  [fam |-> "int", full |-> FALSE, wrap |-> "tuple",
   val |-> VTuple(<<VInt(width, bits), VU8(77)>>),
   ty |-> VTuple(<<TInt(width), TU8>>),
   raw |-> BEmpty]

\* bytes with the continuation bit set
ContBytes == {128, 129, 255}

\* bytes that end a varint, and one that does not
LastBytes == {0, 1, 3, 4, 15, 16, 31, 127, 255}

\* the bytes of k times the byte c, then t, then 77, read as an unsigned
\* integer of the width and a u8
RawUintJob(width, c, k, t) ==
  [fam |-> "rawuint", full |-> FALSE, wrap |-> "none",
   val |-> VUnit, ty |-> VTuple(<<TUint(width), TU8>>),
   raw |-> BOf([i \in 1..(k + 2) |-> IF i <= k THEN c ELSE IF i = k + 1 THEN t ELSE 77])]

\* variant number idx of the enums of the enum jobs: a unit variant, or a
\* struct variant with one u8 field
JobVariantValue(idx, payload) ==
  IF payload THEN VVariant(idx, <<VField(1, VU8(40 + idx))>>) ELSE VUnitVariant(idx)

JobVariantType(idx, payload) ==
  IF payload THEN VVariant(idx, <<TField(1, TU8)>>) ELSE VUnitVariant(idx)

\* the reader's enum: the variants 0 .. known - 1 and the catch-all
ReaderEnum(known, payload) ==
  TEnum([i \in 1..(known + 1) |->
           IF i <= known THEN JobVariantType(i - 1, payload) ELSE VOther(known)])

\* variant number idx written and read by a reader that knows the variants
\* below known and declares a catch-all, alone or followed by a u8
EnumJob(full, idx, known, payload, follow) ==
  [fam |-> "enum", full |-> full, wrap |-> IF follow THEN "tuple" ELSE "none",
   val |-> IF follow THEN VTuple(<<JobVariantValue(idx, payload), VU8(77)>>)
           ELSE JobVariantValue(idx, payload),
   ty |-> IF follow THEN VTuple(<<ReaderEnum(known, payload), TU8>>)
          ELSE ReaderEnum(known, payload),
   raw |-> BEmpty]

\* the newtype variant number idx holding a u8, followed by the u8 77, read
\* by a reader that knows the newtype variants below known and declares a
\* catch-all
NewtypeJob(full, idx, known) ==
  [fam |-> "enum", full |-> full, wrap |-> "tuple",
   val |-> VTuple(<<VNewtypeVariant(idx, VU8(40 + idx)), VU8(77)>>),
   ty |-> VTuple(<<TEnum([i \in 1..(known + 1) |->
                           IF i <= known THEN VNewtypeVariant(i - 1, TU8)
                           ELSE VOther(known)]),
                   TU8>>),
   raw |-> BEmpty]

\* names of one letter, of the form _N, and of 1 to 126 letters
IdentNames ==
  {1} \cup {100 + id : id \in {0, 3, 9, 10, 59, 60, 99}}
      \cup {1000 + len : len \in {1, 2, 63, 64, 65, 70, 124, 125, 126}}

\* a struct variant named vn with one u8 field named fn, with identifiers
IdentJob(vn, fn) ==
  [fam |-> "ident", full |-> TRUE, wrap |-> "none",
   val |-> VTuple(<<VVariant(vn, <<VField(fn, VU8(5))>>), VU8(77)>>),
   ty |-> VTuple(<<TEnum(<<VVariant(vn, <<TField(fn, TU8)>>)>>), TU8>>),
   raw |-> BEmpty]

\* what may follow the first byte of an identifier: many letters, a length
\* and bytes that are not UTF-8, a length and three letters, nothing
IdentTails ==
  { BRep(97, 200), BOf(<<2, 255, 255, 77>>), BOf(<<3, 120, 121, 122, 77>>), BEmpty }

\* the byte v and the tail, read as an identifier and a u8
RawIdentJob(v, tail) ==
  [fam |-> "rawident", full |-> TRUE, wrap |-> "none",
   val |-> VUnit, ty |-> VTuple(<<TIdent, TU8>>),
   raw |-> BCat(BRep(v, 1), tail)]

\* the bytes 1, 2, ..., n
Counting(n) == [i \in 1..n |-> i]

\* an unknown-length sequence whose one-chunk block holds the bytes 1 .. h,
\* read as a sequence of pairs of u8: for an odd h the last pair is cut short
RawCutJob(full, h) ==
  [fam |-> "rawcut", full |-> full, wrap |-> "none",
   val |-> VUnit, ty |-> TSeq(VTuple(<<TU8, TU8>>)),
   raw |-> BOf(<<SPECIAL_LEN, UNKNOWN_LEN, h>> \o Counting(h))]

\* an unknown-length sequence whose block announces h1 bytes and starts with
\* an unknown-length sequence whose block announces h2 bytes, and the bytes
\* 1 .. p after that, read as a sequence of sequences of u8
RawNestJob(full, h1, h2, p) ==
  [fam |-> "rawnest", full |-> full, wrap |-> "none",
   val |-> VUnit, ty |-> TSeq(TSeq(TU8)),
   raw |-> BOf(<<SPECIAL_LEN, UNKNOWN_LEN, h1, SPECIAL_LEN, UNKNOWN_LEN, h2>> \o Counting(p))]

\* the byte b and the byte 77, read as a bool and a u8
RawBoolJob(b) ==
  [fam |-> "rawbool", full |-> FALSE, wrap |-> "none",
   val |-> VUnit, ty |-> VTuple(<<TBool, TU8>>),
   raw |-> BOf(<<b, 77>>)]

\* the byte b and the bytes 9 and 77, read as an option of a u8 and a u8
RawOptionJob(b) ==
  [fam |-> "rawoption", full |-> FALSE, wrap |-> "none",
   val |-> VUnit, ty |-> VTuple(<<TOption(TU8), TU8>>),
   raw |-> BOf(<<b, 9, 77>>)]

\* the jobs that hand bytes to deserialize
RawFams == {"rawseq", "rawuint", "rawident", "rawcut", "rawnest", "rawbool", "rawoption"}

CodecInit ==
  /\ SkipClear
  /\ CodecClear
  /\ stage = "init"
  /\ \/ \E full \in BOOLEAN, wrap \in Wraps, wmask \in 0..(Pow2(MaxFields) - 1),
          rmask \in 0..(Pow2(MaxFields + 1) - 1), desc \in BOOLEAN :
          /\ full
          /\ job = StructJob(full, wrap,
                             Names(IF desc THEN Desc(MaxFields) ELSE Asc(MaxFields), wmask),
                             Names(Asc(MaxFields + 1), rmask))
     \/ \E wrap \in Wraps, n \in 0..MaxFields, m \in 0..(MaxFields + 1) :
          job = StructJob(FALSE, wrap, Asc(n), Asc(m))
     \/ \E full \in BOOLEAN, known \in BOOLEAN, n \in Lens :
          job = SeqJob(full, known, ByteElements(n), TU8)
     \/ \E full \in BOOLEAN, known \in BOOLEAN, n \in 0..MaxSmall :
          job = SeqJob(full, known, BigElements(n), TBytes)
     \/ \E full \in BOOLEAN, known \in BOOLEAN, n \in 0..MaxSmall, e \in EmptyElements :
          job = EmptySeqJob(full, known, n, e)
     \/ \E full \in BOOLEAN, x \in 1..127 : job = RawSeqJob(full, x)
     \/ \E full \in BOOLEAN, known \in BOOLEAN, n \in Lens : job = MapJob(full, known, n)
     \/ \E width \in Widths, lo \in 0..128, hi \in 0..128 :
          /\ lo <= hi /\ hi <= width /\ (lo = 0 \/ hi = lo + 1 \/ hi = width)
          /\ job = UintJob(width, BitRange(width, lo, hi))
     \/ \E width \in Widths, lo \in 0..128, hi \in 0..128, neg \in BOOLEAN :
          /\ lo <= hi /\ hi <= width /\ (lo = 0 \/ hi = lo + 1 \/ hi = width)
          /\ job = IntJob(width, IF neg THEN Complement(BitRange(width, lo, hi))
                                  ELSE BitRange(width, lo, hi))
     \/ \E vn \in IdentNames, fn \in IdentNames : job = IdentJob(vn, fn)
     \/ \E full \in BOOLEAN, h \in 0..(2 * MaxSmall + 1) : job = RawCutJob(full, h)
     \/ \E full \in BOOLEAN, h1 \in 0..(MaxSmall + 4), h2 \in 0..(MaxSmall + 4),
          p \in 0..(MaxSmall + 4) :
          job = RawNestJob(full, h1, h2, p)
     \/ \E full \in BOOLEAN, idx \in 0..(MaxFields + 1), known \in 1..MaxFields,
          payload \in BOOLEAN, follow \in BOOLEAN :
          job = EnumJob(full, idx, known, payload, follow)
     \/ \E full \in BOOLEAN, idx \in 0..(MaxFields + 1), known \in 1..MaxFields :
          job = NewtypeJob(full, idx, known)
     \/ \E v \in 0..127, tail \in IdentTails : job = RawIdentJob(v, tail)
     \/ \E b \in 0..255 : job = RawBoolJob(b)
     \/ \E b \in 0..255 : job = RawOptionJob(b)
     \/ \E width \in Widths, c \in ContBytes, k \in 0..varint_max(128), t \in LastBytes :
          /\ k <= varint_max(width)
          /\ job = RawUintJob(width, c, k, t)

\* ser::serialize of the job's value
CodecSerialize ==
  /\ stage = "init" /\ job.fam \notin RawFams
  /\ enc' = to_bytes(job.full, job.val)
  /\ stage' = "enc"
  /\ UNCHANGED <<job, dec>> /\ UNCHANGED skipVars

\* de::deserialize of the bytes written, as the job's type
CodecDeserialize ==
  /\ stage = "enc" /\ enc.err = "Ok" /\ ~enc.output.panic
  /\ dec' = from_bytes(job.full, enc.output.base, job.ty)
  /\ stage' = "dec"
  /\ UNCHANGED <<job, enc>> /\ UNCHANGED skipVars

\* bytes that follow the encoding in the reader: they read as the header
\* of a chunk that is not the last and one byte of it
Follower == BOf(<<255, 255, 1>>)

\* de::deserialize from a reader that holds the bytes written and more
\* bytes after them, as the job's type
CodecDeserializeFollowed ==
  /\ stage = "enc" /\ enc.err = "Ok" /\ ~enc.output.panic
  /\ dec' = from_bytes(job.full, BCat(enc.output.base, Follower), job.ty)
  /\ stage' = "decf"
  /\ UNCHANGED <<job, enc>> /\ UNCHANGED skipVars

\* de::deserialize of the job's bytes, as the job's type
CodecDeserializeRaw ==
  /\ stage = "init" /\ job.fam \in RawFams
  /\ dec' = from_bytes(job.full, job.raw, job.ty)
  /\ stage' = "dec"
  /\ UNCHANGED <<job, enc>> /\ UNCHANGED skipVars

CodecNext ==
  \/ CodecSerialize
  \/ CodecDeserialize
  \/ CodecDeserializeFollowed
  \/ CodecDeserializeRaw

SpecCodec == CodecInit /\ [][CodecNext]_vars

\* ------------------------------------------------------------------------
\* Properties of the skip session
\* ------------------------------------------------------------------------

\* every read so far succeeded and returned the bytes the encoder wrote
ReadsMatch ==
  \A i \in 1..Len(reads) : reads[i].err = "Ok" /\ reads[i].got = reads[i].want

\* C1: a decoder that mirrors every operation of a balanced, nested encoder
\* session reads back exactly the written bytes at every level, closes every
\* block without error, and has consumed the whole stream at the end.
C1_MirroredRoundTrip ==
  ~skipped =>
    /\ ReadsMatch
    /\ last.err = "Ok"
    /\ (phase = "done" => r.base = BEmpty /\ Len(reads) = Cardinality({i \in 1..Len(ops) : ops[i].op = "write"}))

\* a mirrored session is over that wrote and read inside a block nested in
\* another one and wrote more than one chunk into a block
C1_Witness ==
  /\ phase = "done" /\ ~skipped
  /\ \E i \in 1..Len(ops) : ops[i].op = "write" /\ BLen(ops[i].data) > MAX_LEN
  /\ \E i \in 1..Len(ops) - 2 :
       ops[i].op = "start" /\ ops[i + 1].op = "start" /\ ops[i + 2].op = "write"

\* C2: whatever part of a block the decoder read (none, some, all),
\* end_skippable succeeds, every later read returns the bytes the encoder
\* wrote there, and when the enclosing level is the input itself the input
\* is consumed exactly as far as the encoder had written when it closed the
\* block.
C2_EndAligns ==
  /\ ReadsMatch
  /\ (last.op = "end" =>
        /\ last.err = "Ok"
        /\ (RDepth(r) = 0 => last.pos = ops[pc - 1].pos))
  /\ (phase = "done" => r.base = BEmpty)

\* a block holding more than one chunk was closed unread or partly read, and
\* the write that follows it on the enclosing level was then read
C2_Witness ==
  /\ phase = "done" /\ skipped
  /\ \E i \in 1..Len(ops) : ops[i].op = "write" /\ BLen(ops[i].data) > MAX_LEN
  /\ ops[Len(ops)].op = "write"
  /\ reads # <<>> /\ reads[Len(reads)].got = ops[Len(ops)].data

\* the chunks a block that received the bytes recv emits: full(i) holds for
\* the i-th full chunk, and the terminal chunk follows the last of them
IsChunked(emitted, recv) ==
  /\ \A i \in 0..((BLen(recv) \div MAX_LEN) - 1) :
       /\ BTake(BDrop(emitted, i * (MAX_LEN + 3)), 3) = BOf(<<255, 255, 3>>)
       /\ BTake(BDrop(emitted, i * (MAX_LEN + 3) + 3), MAX_LEN)
            = BTake(BDrop(recv, i * MAX_LEN), MAX_LEN)
  /\ BDrop(emitted, (BLen(recv) \div MAX_LEN) * (MAX_LEN + 3))
       = BCat(varint_int(BLen(recv) % MAX_LEN, 16),
              BDrop(recv, (BLen(recv) \div MAX_LEN) * MAX_LEN))

\* C3: a block that received N bytes has emitted, when closed, N div 0xFFFF
\* chunks of 0xFFFF bytes under the header FF FF 03 and then one terminal
\* chunk of N mod 0xFFFF bytes, the payloads being the bytes received in
\* order; while the block is open only the full chunks have been emitted.
C3_Chunking ==
  (~w.panic /\ ~w.err) =>
    /\ (closed.n > 0 => IsChunked(closed.emitted, closed.recv))
    /\ \A d \in 1..WDepth(w) :
         BLen(WRecv(w, d - 1)) - w.blocks[d].mark
           = (BLen(w.blocks[d].recv) \div MAX_LEN) * (MAX_LEN + 3)

\* a block was closed that received, in two writes, a whole number of chunks
C3_Witness ==
  /\ closed.n > 0 /\ ~w.panic
  /\ BLen(closed.recv) = MAX_LEN
  /\ Len(ops) = 4 /\ ops[2].op = "write" /\ ops[3].op = "write"

\* ------------------------------------------------------------------------
\* Properties of the codec run
\* ------------------------------------------------------------------------

\* the fields of the struct inside the wrapped value v
Payload(v, wrap) ==
  CASE wrap = "struct" -> v.items[1].items[1].items
    [] OTHER -> v.items[1].items

\* the fields of the reader's struct inside the wrapped type ty
ReaderPayload(ty, wrap) ==
  CASE wrap = "struct" -> ty.items[1].items[1].items
    [] wrap = "variant" -> ty.items[1].items[2].items
    [] OTHER -> ty.items[1].items

\* the value that follows the struct inside the wrapped value v
Trailing(v, wrap) ==
  CASE wrap = "struct" -> v.items[2].items[1]
    [] OTHER -> v.items[2]

\* whether fields has a field named n
HasField(fields, n) == \E i \in 1..Len(fields) : fields[i].n = n

\* the value of the field named n of fields
ValueOf(fields, n) == fields[CHOOSE i \in 1..Len(fields) : fields[i].n = n].items[1]

\* the decoder succeeded, consumed the whole input and closed every block
DecodedAll == dec.err = "Ok" /\ dec.st.base = BEmpty /\ dec.st.blocks = <<>> /\ ~dec.st.dummy

\* the fields got are those of the reader's struct rf: field i holds the
\* written value if wf has a field of its name, else its default
FullFieldsAgree(got, rf, wf) ==
  /\ Len(got) = Len(rf)
  /\ \A i \in 1..Len(rf) :
       /\ got[i].n = rf[i].n
       /\ got[i].items[1] = IF HasField(wf, rf[i].n) THEN ValueOf(wf, rf[i].n)
                            ELSE rf[i].items[2]

\* C4: with identifiers, a struct (or struct variant) written with the field
\* set W and read with the field set R, every field of R that W lacks
\* declaring a default, decodes without error; each field of R holds the
\* written value if W has it, whatever the order written, else its default;
\* fields only in W are skipped, and the value after the struct is unharmed.
C4_FullStructEvolution ==
  (/\ stage = "dec" /\ job.fam = "struct" /\ job.full
   /\ \A i \in 1..Len(ReaderPayload(job.ty, job.wrap)) :
        \/ HasField(Payload(job.val, job.wrap), ReaderPayload(job.ty, job.wrap)[i].n)
        \/ Len(ReaderPayload(job.ty, job.wrap)[i].items) = 2)
  => /\ DecodedAll
     /\ Trailing(dec.val, job.wrap) = VU8(77)
     /\ FullFieldsAgree(Payload(dec.val, job.wrap), ReaderPayload(job.ty, job.wrap),
                        Payload(job.val, job.wrap))

\* a struct variant written in descending order with a field the reader
\* lacks was read by a reader with a field the writer lacks
C4_Witness ==
  /\ stage = "dec" /\ job.fam = "struct" /\ job.full /\ job.wrap = "variant"
  /\ DecodedAll
  /\ Len(Payload(job.val, job.wrap)) = 3
  /\ Payload(job.val, job.wrap)[1].n = 3
  /\ ~HasField(ReaderPayload(job.ty, job.wrap), 3)
  /\ HasField(ReaderPayload(job.ty, job.wrap), 2)
  /\ HasField(ReaderPayload(job.ty, job.wrap), 4)

\* the fields got are those of the reader's struct rf by position: field i
\* holds the i-th written value if there is one, else its default
SlimFieldsAgree(got, rf, wf) ==
  /\ Len(got) = Len(rf)
  /\ \A i \in 1..Len(rf) :
       /\ got[i].n = rf[i].n
       /\ got[i].items[1] = IF i <= Len(wf) THEN wf[i].items[1] ELSE rf[i].items[2]

\* C5: without identifiers, a struct written with n fields and read as one
\* with m fields of the same leading types, the fields past the n-th
\* declaring defaults, decodes without error; field i holds the i-th written
\* value for i <= min(n, m) and its default beyond; written fields past the
\* m-th are discarded, and the value after the struct decodes as written.
C5_SlimStructEvolution ==
  (/\ stage = "dec" /\ job.fam = "struct" /\ ~job.full
   /\ \A i \in 1..Len(ReaderPayload(job.ty, job.wrap)) :
        \/ i <= Len(Payload(job.val, job.wrap))
        \/ Len(ReaderPayload(job.ty, job.wrap)[i].items) = 2)
  => /\ DecodedAll
     /\ Trailing(dec.val, job.wrap) = VU8(77)
     /\ SlimFieldsAgree(Payload(dec.val, job.wrap), ReaderPayload(job.ty, job.wrap),
                        Payload(job.val, job.wrap))

\* a struct written with three fields, the last longer than a chunk, was
\* read inside an enclosing struct by a reader that expects one field
C5_Witness ==
  /\ stage = "dec" /\ job.fam = "struct" /\ ~job.full /\ job.wrap = "struct"
  /\ DecodedAll
  /\ Len(Payload(job.val, job.wrap)) = 3
  /\ Len(ReaderPayload(job.ty, job.wrap)) = 1
  /\ Trailing(dec.val, job.wrap) = VU8(77)

\* the bytes the elements of the job's sequence or map serialize to
ElementsBytes == to_bytes(job.full, VTuple(job.val.items[1].items)).output.base

\* the bytes written without the last one
AllButLast(b) == BTake(b, BLen(b) - 1)

SeqPrefix(known, n) ==
  IF ~known THEN BOf(<<SPECIAL_LEN, UNKNOWN_LEN>>)
  ELSE IF n = SPECIAL_LEN THEN BOf(<<SPECIAL_LEN, SPECIAL_LEN>>)
  ELSE BRep(n, 1)

\* C7: a sequence is written under the prefix L (known length L # 125),
\* 125 125 (known length 125) or 125 0 (unknown length), a known-length one
\* with its elements right after the prefix and no framing; deserialize_seq
\* reads each back as the same case with the same elements, and fails with
\* BadLen on 125 followed by anything but 125 or 0.
C7_SeqLengthPrefix ==
  /\ (job.fam = "seq" /\ stage \in {"enc", "dec"})
     => /\ enc.err = "Ok" /\ ~enc.output.panic
        /\ BTake(enc.output.base,
                 BLen(SeqPrefix(job.val.items[1].n = 1, Len(job.val.items[1].items))))
             = SeqPrefix(job.val.items[1].n = 1, Len(job.val.items[1].items))
        /\ (job.val.items[1].n = 1 =>
              AllButLast(enc.output.base)
                = BCat(SeqPrefix(TRUE, Len(job.val.items[1].items)), ElementsBytes))
        /\ (stage = "dec" =>
              /\ DecodedAll
              /\ dec.val.items[1].n = job.val.items[1].n
              /\ dec.val.items[1].items = job.val.items[1].items
              /\ dec.val.items[2] = VU8(77))
  /\ (job.fam = "rawseq" /\ stage = "dec")
     => (dec.err = "BadLen") = (BHead(BDrop(job.raw, 1)) # SPECIAL_LEN)

\* a known-length sequence of 125 elements was read back
C7_Witness ==
  /\ job.fam = "seq" /\ job.val.items[1].n = 1 /\ stage = "dec"
  /\ Len(job.val.items[1].items) = SPECIAL_LEN
  /\ DecodedAll
  /\ Len(dec.val.items[1].items) = SPECIAL_LEN

\* C8: a map serialized with a known length is serialized without error and
\* deserializes to the same map, under both configurations.
C8_KnownLengthMap ==
  (job.fam = "map" /\ job.val.items[1].n = 1)
  => /\ (stage \in {"enc", "dec"} => enc.err = "Ok" /\ ~enc.output.panic)
     /\ (stage = "dec" => DecodedAll /\ dec.val = job.val)

\* C9: a map serialized with unknown length is accepted by the encoder,
\* written as 125, 0 and a skip block holding the entries, and deserializes
\* to the same entries.
C9_UnknownLengthMap ==
  (job.fam = "map" /\ job.val.items[1].n = 0 /\ stage \in {"enc", "dec"})
  => /\ enc.err = "Ok" /\ ~enc.output.panic
     /\ BTake(enc.output.base, 2) = BOf(<<SPECIAL_LEN, UNKNOWN_LEN>>)
     /\ (stage = "dec" => DecodedAll /\ dec.val = job.val)

\* the value of all ones of the width
AllOnes(width) == BitRange(width, 0, width)

\* C10: the varint of a value of width 16, 32, 64 or 128 takes at most
\* varint_max bytes; the maximum value takes varint_max bytes, the last one
\* max_of_last_byte (u32::MAX is FF FF FF FF 0F); the decoder returns the
\* value and leaves the input right after the varint (the byte 77 is read
\* next and nothing remains).
C10_VarintRoundTrip ==
  (job.fam = "uint" /\ stage \in {"enc", "dec"})
  => /\ enc.err = "Ok" /\ ~enc.output.panic
     /\ BLen(enc.output.base) - 1 <= varint_max(job.val.items[1].n)
     /\ (job.val.items[1].items = AllOnes(job.val.items[1].n) =>
           /\ BLen(enc.output.base) - 1 = varint_max(job.val.items[1].n)
           /\ BDrop(enc.output.base, varint_max(job.val.items[1].n) - 1)
                = BOf(<<max_of_last_byte(job.val.items[1].n), 77>>))
     /\ (job.val.items[1].n = 32 /\ job.val.items[1].items = AllOnes(32) =>
           enc.output.base = BOf(<<255, 255, 255, 255, 15, 77>>))
     /\ (stage = "dec" => DecodedAll /\ dec.val = job.val)

\* u128::MAX was read back
C10_Witness ==
  /\ job.fam = "uint" /\ stage = "dec"
  /\ job.val.items[1].n = 128 /\ job.val.items[1].items = AllOnes(128)
  /\ DecodedAll /\ dec.val.items[1].items = AllOnes(128)

\* byte number i (from 0) of the byte string b
ByteAt(b, i) == BHead(BDrop(b, i))

\* the number of leading bytes of b that have the continuation bit set
LeadingContinuations(b) ==
  CHOOSE k \in 0..BLen(b) :
    /\ \A i \in 0..(k - 1) : ByteAt(b, i) >= 128
    /\ k = BLen(b) \/ ByteAt(b, k) < 128

\* the width of the integer a raw integer job reads
RawWidth == job.ty.items[1].n

\* C11: every byte string the varint decoder accepts for a width is the
\* encoder's output for the value decoded; an encoding padded with zero
\* continuation groups, such as 0x80 0x00 for 0, is rejected with BadVarint.
C11_CanonicalOnly ==
  (job.fam = "rawuint" /\ stage = "dec" /\ dec.err = "Ok")
  => job.raw = BCat(BOf(varint_bits(dec.val.items[1].items, 0)), BRep(77, 1))

\* bit j (from 1) of the value the bytes of a varint spell, with no limit on
\* the width
SpelledBit(b, j) == (ByteAt(b, (j - 1) \div 7) \div Pow2((j - 1) % 7)) % 2

\* C12: the varint decoder returns BadVarint when the last permitted byte
\* for the width still has the continuation bit set, or carries bits that
\* do not fit the width; the value of an accepted encoding is the value its
\* bytes spell, with no bit beyond the width and none dropped.
C12_VarintBounds ==
  (job.fam = "rawuint" /\ stage = "dec")
  => /\ (LeadingContinuations(job.raw) >= varint_max(RawWidth) => dec.err = "BadVarint")
     /\ (/\ LeadingContinuations(job.raw) = varint_max(RawWidth) - 1
         /\ ByteAt(job.raw, varint_max(RawWidth) - 1) > max_of_last_byte(RawWidth)
         => dec.err = "BadVarint")
     /\ (dec.err = "Ok" =>
           /\ Len(dec.val.items[1].items) = RawWidth
           /\ \A j \in 1..(7 * (LeadingContinuations(job.raw) + 1)) :
                SpelledBit(job.raw, j)
                  = IF j <= RawWidth THEN dec.val.items[1].items[j] ELSE 0
           /\ dec.val.items[2] = VU8(77))

\* FF FF FF FF 1F was read as a u32 and refused
C12_Witness ==
  /\ job.fam = "rawuint" /\ stage = "dec" /\ RawWidth = 32
  /\ job.raw = BOf(<<255, 255, 255, 255, 31, 77>>)
  /\ dec.err = "BadVarint"

\* the two's complement bits of -1, of the minimum and of the maximum
MinusOne(width) == AllOnes(width)

IntMin(width) == BitRange(width, width - 1, width)

IntMax(width) == BitRange(width, 0, width - 1)

\* C13: at each signed width the zigzag unfold undoes the fold and the fold
\* undoes the unfold (so the fold is one-to-one and onto the unsigned values
\* of the width), the minimum and maximum included; fold(0) = 0,
\* fold(-1) = 1, fold(1) = 2; a signed integer is read back as written.
C13_ZigZagRoundTrip ==
  /\ \A width \in Widths :
       /\ zig_zag(IntToBits(0, width)) = IntToBits(0, width)
       /\ zig_zag(MinusOne(width)) = IntToBits(1, width)
       /\ zig_zag(IntToBits(1, width)) = IntToBits(2, width)
       /\ de_zig_zag(zig_zag(IntMin(width))) = IntMin(width)
       /\ de_zig_zag(zig_zag(IntMax(width))) = IntMax(width)
       /\ zig_zag(IntMin(width)) = AllOnes(width)
  /\ (job.fam = "int" /\ stage \in {"enc", "dec"})
     => /\ de_zig_zag(zig_zag(job.val.items[1].items)) = job.val.items[1].items
        /\ zig_zag(de_zig_zag(job.val.items[1].items)) = job.val.items[1].items
        /\ enc.err = "Ok" /\ ~enc.output.panic
        /\ enc.output.base
             = BCat(BOf(varint_bits(zig_zag(job.val.items[1].items), 0)), BRep(77, 1))
        /\ (stage = "dec" => DecodedAll /\ dec.val = job.val)

\* the minimum i16, -32768, was read back
C13_Witness ==
  /\ job.fam = "int" /\ stage = "dec"
  /\ job.val.items[1].n = 16 /\ job.val.items[1].items = IntMin(16)
  /\ DecodedAll /\ dec.val.items[1].items = IntMin(16)
  /\ enc.output.base = BOf(<<255, 255, 3, 77>>)

\* the names of the variant and of the field of an identifier job
JobVariant == job.val.items[1].n

JobField == job.val.items[1].items[1].n

\* C14: with identifiers, every field name and variant name - shorter than
\* 64 bytes, of 64 bytes or more, of the form _N with N < 60 or N >= 60 - is
\* read back by read_identifier as the name written, exactly its bytes being
\* consumed: the struct variant decodes to itself and the next value follows.
C14_IdentifierRoundTrip ==
  (job.fam = "ident" /\ stage \in {"enc", "dec"})
  => /\ enc.err = "Ok" /\ ~enc.output.panic
     /\ (stage = "dec" => DecodedAll /\ dec.val = job.val)

\* the number N of a name of the form _N, for the name numbers of the jobs
IsCompact(n) == n >= 100 /\ n < 100 + ID_COUNT

\* C15: with identifiers, a variant or field named _N with N < ID_COUNT is
\* written as the one byte ID_LEN_NAME + N, and decodes back to _N.
C15_CompactIdentifier ==
  (job.fam = "ident" /\ stage \in {"enc", "dec"} /\ IsCompact(JobVariant) /\ IsCompact(JobField))
  => /\ enc.err = "Ok" /\ ~enc.output.panic
     /\ enc.output.base
          = BOf(<<ID_LEN_NAME + (JobVariant - 100), 1, ID_LEN_NAME + (JobField - 100),
                  1, 5, 77>>)
     /\ (stage = "dec" => DecodedAll /\ dec.val = job.val)

\* the first byte of a raw identifier job and what follows it
RawFirst == ByteAt(job.raw, 0)

RawTail == BDrop(job.raw, 1)

\* the name _N in bytes
UnderscoreDecimal(id) ==
  BOf(IF id < 10 THEN <<95, 48 + id>> ELSE <<95, 48 + (id \div 10), 48 + (id % 10)>>)

\* the result of reading an identifier and a u8 is the name given, the byte
\* after the first used bytes of the tail, and the rest of the tail unread;
\* Io if the tail has no such byte
ReadsName(name, used) ==
  IF BLen(RawTail) <= used THEN dec.err = "Io"
  ELSE /\ dec.err = "Ok"
       /\ dec.val = VTuple(<<VIdent(name), VU8(ByteAt(RawTail, used))>>)
       /\ dec.st.base = BDrop(RawTail, used + 1)

\* the name is the len bytes from byte number from of the tail: Io if there
\* are fewer, BadIdentifier if they are not UTF-8
ReadsBytes(from, len) ==
  IF BLen(RawTail) < from + len THEN dec.err = "Io"
  ELSE IF \E i \in from..(from + len - 1) : ByteAt(RawTail, i) = 255
  THEN dec.err = "BadIdentifier"
  ELSE ReadsName(BTake(BDrop(RawTail, from), len), from + len)

\* C16: read_identifier takes a first varint v below 64 for the length of
\* the name that follows, v = 64 for the marker of a second varint that
\* gives the length, 65 <= v < 125 for the name _(v - 65) with no further
\* byte consumed, and fails with BadIdentifier for v >= 125 and for name
\* bytes that are not UTF-8.
C16_ReadIdentifier ==
  (job.fam = "rawident" /\ stage = "dec")
  => CASE RawFirst >= SPECIAL_LEN -> dec.err = "BadIdentifier"
       [] RawFirst >= 65 /\ RawFirst < SPECIAL_LEN ->
            ReadsName(UnderscoreDecimal(RawFirst - 65), 0)
       [] RawFirst = 64 ->
            IF RawTail = BEmpty THEN dec.err = "Io"
            ELSE ReadsBytes(1, ByteAt(RawTail, 0))
       [] OTHER -> ReadsBytes(0, RawFirst)

\* the marker 64, the length 3 and the name xyz were read, and the byte 77
\* after them
C16_Witness ==
  /\ job.fam = "rawident" /\ stage = "dec"
  /\ job.raw = BOf(<<64, 3, 120, 121, 122, 77>>)
  /\ dec.err = "Ok"
  /\ dec.val = VTuple(<<VIdent(BOf(<<120, 121, 122>>)), VU8(77)>>)

\* the enum written by an enum job, what it was read as, and the reader's
\* enum type
EnumWritten == IF job.wrap = "tuple" THEN job.val.items[1] ELSE job.val

EnumRead == IF job.wrap = "tuple" THEN dec.val.items[1] ELSE dec.val

EnumReader == IF job.wrap = "tuple" THEN job.ty.items[1] ELSE job.ty

\* the number of variants the reader of an enum job knows
KnownVariants == Len(EnumReader.items) - 1

\* C17: a reader enum with a catch-all variant decodes a variant it does
\* not know - an index out of range without identifiers, an unknown name
\* with identifiers - to the catch-all without failing, and a variant it
\* knows to the same variant with the written payload.
C17_CatchAllVariant ==
  (job.fam = "enum" /\ stage = "dec" /\ job.wrap = "none")
  => /\ dec.err = "Ok"
     /\ (EnumWritten.n < KnownVariants => EnumRead = EnumWritten)
     /\ (EnumWritten.n >= KnownVariants => EnumRead = VOther(KnownVariants))

\* a struct variant past the reader's catch-all was read as the catch-all
\* with identifiers
C17_Witness ==
  /\ job.fam = "enum" /\ stage = "dec" /\ job.wrap = "none" /\ job.full
  /\ EnumWritten.k = "variant"
  /\ EnumWritten.n > KnownVariants
  /\ dec.err = "Ok" /\ EnumRead = VOther(KnownVariants)

\* C18: an error raised while decoding any part of a value is the Err of
\* the deserialize call: a sequence whose last element is cut short (its
\* block ends after the element's first byte) is not decoded successfully.
C18_ErrorsPropagate ==
  (job.fam = "rawcut" /\ stage = "dec" /\ ByteAt(job.raw, 2) % 2 = 1)
  => dec.err # "Ok"

\* C19: for every input a deserialize call returns a value or an Error; no
\* input, however malformed or truncated, brings the skip stack to one of
\* its fatal conditions.
C19_NoPanicOnInput ==
  (job.fam \in RawFams /\ stage = "dec") => dec.err # "Panic"

\* C20: once a start_skippable or end_skippable call has returned, with
\* success or with an error, the skip stack is not the placeholder, so that
\* no later operation finds it.
C20_NoPlaceholder ==
  /\ ~w.dummy /\ ~r.dummy
  /\ ~enc.output.dummy /\ ~dec.st.dummy

\* C30: after a write to an encoder skip block has returned, the pending
\* buffer of every open block holds fewer than MAX_LEN bytes, so that finish
\* never meets a buffer of exactly MAX_LEN bytes.
C30_PendingBelowMax ==
  \A d \in 1..WDepth(w) : BLen(w.blocks[d].buf) < MAX_LEN

\* every header was read at a remaining count of 0, and each but the first
\* after a header of MAX_LEN
HeadersRead(seen) ==
  \A i \in 1..Len(seen) :
    seen[i].at = 0 /\ (i > 1 => seen[i - 1].header = MAX_LEN)

\* the header read last, 0 when none was
LastHeader(seen) == IF seen = <<>> THEN 0 ELSE seen[Len(seen)].header

\* a block's fields against the headers it has read
BlockHeaders(b) ==
  /\ HeadersRead(b.seen)
  /\ b.has_next_block = (b.seen = <<>> \/ LastHeader(b.seen) = MAX_LEN)
  /\ b.remaining <= LastHeader(b.seen)

\* C26: start_skippable consumes no bytes and leaves the enclosing blocks as
\* they were, the new block having read no header; a block reads a header
\* only at a remaining count of 0, the first one or after a header of
\* MAX_LEN, which sets remaining to MAX_LEN and allows another header; after
\* any other header h, which sets remaining to h, the block reads no header.
C26_ChunkHeaders ==
  [][ /\ \A d \in 1..RDepth(r') : BlockHeaders(r'.blocks[d])
      /\ HeadersRead(r'.done)
      /\ DecStart =>
           /\ r'.base = r.base
           /\ SubSeq(r'.blocks, 1, RDepth(r)) = r.blocks
           /\ r'.blocks[RDepth(r')].seen = <<>> ]_vars

\* the decoder closed a block of which it had read two headers, and is done
C26_Witness ==
  /\ phase = "done"
  /\ Len(r.done) = 2 /\ r.done[1].header = MAX_LEN /\ r.done[2].header = 2

\* C27: a read of n bytes inside a block returns the next n bytes written
\* into the block when it holds as many, across chunk boundaries, and fails
\* with the end-of-block error otherwise; it consumes nothing after the
\* terminal chunk, and the end_skippable after it succeeds and leaves the
\* enclosing stream right after the terminal chunk.
C27_ReadInBlock ==
  /\ last.op = "probe" =>
       /\ IF last.n <= BLen(last.rest)
          THEN last.err = "Ok" /\ last.got = BTake(last.rest, last.n)
          ELSE last.err = "EndOfBlock"
       /\ (RDepth(r) = 1 => last.pos <= ops[pc].pos)
  /\ (last.op = "end" /\ last.prev = "probe") =>
       /\ last.err = "Ok"
       /\ (RDepth(r) = 0 => last.pos = ops[pc - 1].pos)
  /\ ReadsMatch

\* a read of more bytes than the two chunks of its block hold has failed
C27_Witness ==
  /\ last.op = "probe" /\ last.err = "EndOfBlock"
  /\ BLen(last.rest) = MAX_LEN + 1 /\ last.n = MAX_LEN + 2

\* the jobs whose reader has the writer's type
SameTypeFams == {"seq", "map", "uint", "int", "ident"}

\* C21: in a serialize call that returns Ok and in the deserialize of its
\* output as the same type under the same configuration, no end_skippable
\* meets a stack without an open block, every block opened is closed, and
\* no block is open and no placeholder in place at the end of the call.
C21_ProperNesting ==
  (job.fam \in SameTypeFams /\ stage \in {"enc", "dec"} /\ enc.err = "Ok")
  => /\ ~enc.output.panic /\ ~enc.output.dummy /\ enc.output.blocks = <<>>
     /\ (stage = "dec" =>
           dec.err # "Panic" /\ dec.st.blocks = <<>> /\ ~dec.st.dummy)

\* C24: a bool read from the byte 0 is false and from 1 true, an option read
\* from the tag 0 is absent and from 1 present with the value that follows;
\* every other byte gives BadBool, respectively BadOption, and no value.
C24_BoolOptionTags ==
  /\ (job.fam = "rawbool" /\ stage = "dec") =>
       IF RawFirst \in {FALSE_BYTE, TRUE_BYTE}
       THEN dec.err = "Ok" /\ dec.val = VTuple(<<VBool(RawFirst = TRUE_BYTE), VU8(77)>>)
       ELSE dec.err = "BadBool" /\ dec.val = 0
  /\ (job.fam = "rawoption" /\ stage = "dec") =>
       CASE RawFirst = NONE ->
              dec.err = "Ok" /\ dec.val = VTuple(<<VNone, VU8(9)>>)
         [] RawFirst = SOME ->
              dec.err = "Ok" /\ dec.val = VTuple(<<VSome(VU8(9)), VU8(77)>>)
         [] OTHER -> dec.err = "BadOption" /\ dec.val = 0

\* a bool was read from the byte 2
C24_Witness ==
  job.fam = "rawbool" /\ stage = "dec" /\ RawFirst = 2 /\ dec.err = "BadBool"

\* C29: when a variant with a payload that the reader does not know is
\* decoded to the reader's catch-all, the payload is consumed or skipped:
\* the u8 that follows the enum in a tuple decodes to its written value.
C29_UnknownPayloadSkipped ==
  (/\ job.fam = "enum" /\ job.wrap = "tuple" /\ stage = "dec"
   /\ EnumWritten.k \in {"variant", "newtype"}
   /\ EnumWritten.n >= KnownVariants)
  => /\ dec.err = "Ok"
     /\ EnumRead = VOther(KnownVariants)
     /\ dec.val.items[2] = VU8(77)

\* C28: decoding a sequence written with unknown length comes to an end for
\* every element type, also one whose encoding is empty, and yields as many
\* elements as were written.
C28_UnknownLengthEnds ==
  (job.fam \in {"seq", "zseq"} /\ stage = "dec" /\ job.val.items[1].n = 0)
  => /\ dec.err = "Ok"
     /\ Len(dec.val.items[1].items) = Len(job.val.items[1].items)

\* the jobs that write a value of the supported shapes (integers of every
\* width, known-length sequences and maps inside a tuple) and read it back
\* as the type it was written from
RoundTripJob ==
  \/ job.fam \in {"uint", "int"}
  \/ job.fam \in {"seq", "zseq", "map"} /\ job.val.items[1].n = 1

\* C22: for every value of the supported shapes and either configuration,
\* deserialize of what serialize wrote returns Ok with the value written.
C22_RoundTrip ==
  (RoundTripJob /\ stage = "dec") => (dec.err = "Ok" /\ dec.val = job.val)

\* C23: a deserialize that returns Ok has consumed exactly the bytes that
\* serialize wrote: the bytes that follow them in the reader are unread and
\* are what the reader returned by finalize holds.
C23_ExactConsumption ==
  (stage = "decf" /\ dec.err = "Ok")
  => /\ dec.st.base = Follower
     /\ dec.st.blocks = <<>> /\ ~dec.st.dummy

RECURSIVE Framed(_)
\* what start_skippable, one value of the bytes b and end_skippable put on
\* the stream: the chunks of 0xFFFF bytes under the header 0xFFFF, then the
\* last chunk under its length
Framed(b) ==
  IF BLen(b) >= MAX_LEN
  THEN BCat(BOf(<<255, 255, 3>>), BCat(BTake(b, MAX_LEN), Framed(BDrop(b, MAX_LEN))))
  ELSE BCat(varint_int(BLen(b), 16), b)

\* the bytes the value v serializes to under the job's configuration
ValueBytes(v) == to_bytes(job.full, v).output.base

\* the bytes of a string written as its length and its bytes
LenPrefixed(b) == BCat(varint_int(BLen(b), 64), b)

RECURSIVE FullFieldEvents(_, _)
\* for each of the fields from the i-th on: its identifier, then
\* start_skippable, its value, end_skippable
FullFieldEvents(fields, i) ==
  IF i > Len(fields) THEN BEmpty
  ELSE BCat(LenPrefixed(FieldName(fields[i].n)),
            BCat(Framed(ValueBytes(fields[i].items[1])), FullFieldEvents(fields, i + 1)))

RECURSIVE FieldValues(_, _)
\* the values of the fields from the i-th on, without identifiers
FieldValues(fields, i) ==
  IF i > Len(fields) THEN BEmpty
  ELSE BCat(ValueBytes(fields[i].items[1]), FieldValues(fields, i + 1))

\* the stream of a struct with the fields: the count, then the fields each
\* in its own block after its identifier (with identifiers), or all values
\* in one block (without)
StructEvents(fields) ==
  BCat(varint_int(Len(fields), 64),
       IF job.full THEN FullFieldEvents(fields, 1) ELSE Framed(FieldValues(fields, 1)))

\* the tag written in front of the job's struct: that of variant 1 when the
\* struct is a struct variant
StructTag ==
  IF job.wrap # "variant" THEN BEmpty
  ELSE IF job.full THEN LenPrefixed(VariantName(1)) ELSE varint_int(1, 32)

\* the reader's struct has the writer's fields in the writer's order
SameFields ==
  /\ Len(ReaderPayload(job.ty, job.wrap)) = Len(Payload(job.val, job.wrap))
  /\ \A i \in 1..Len(Payload(job.val, job.wrap)) :
       ReaderPayload(job.ty, job.wrap)[i].n = Payload(job.val, job.wrap)[i].n

\* C25: a struct (or struct variant) of k fields is written as the count k,
\* then with identifiers each field as identifier, start_skippable, value,
\* end_skippable, and without identifiers as one start_skippable, the k
\* values and one end_skippable; the decoder reads the count and opens and
\* closes its blocks at the same places, so that a reader with the same
\* fields gets the value written and stands at the end of the stream.
C25_StructEventOrder ==
  (job.fam = "struct" /\ job.wrap \in {"tuple", "variant"} /\ stage \in {"enc", "dec"})
  => /\ enc.err = "Ok"
     /\ enc.output.base
          = BCat(StructTag, BCat(StructEvents(Payload(job.val, job.wrap)), BRep(77, 1)))
     /\ (stage = "dec" /\ SameFields) => (DecodedAll /\ dec.val = job.val)

\* a struct of three fields, one with a nested block and one longer than a
\* chunk, was written with identifiers and read back with the same fields
C25_Witness ==
  /\ job.fam = "struct" /\ job.wrap = "tuple" /\ job.full /\ stage = "dec"
  /\ Len(Payload(job.val, job.wrap)) = 3 /\ SameFields
  /\ DecodedAll /\ dec.val = job.val

=============================================================================
